---- MODULE Spec2Model ----
(***************************************************************************)
(* State-machine model of the gdsjam rendering core: PixiRenderer          *)
(* (viewport, culling, render pass), the LOD controller planned in the     *)
(* LOD DevLog, the minimap renderer and the file loader.                   *)
(*                                                                         *)
(* Numbers that are floats in the TypeScript are exact rationals here:     *)
(* a pair <<n, d>> with d > 0 in lowest terms.                             *)
(***************************************************************************)
EXTENDS Integers, Sequences, FiniteSets, TLC

(***************************************************************************)
(* Bounds of the model.                                                    *)
(***************************************************************************)
MaxInputs == 2
MaxRenders == 2
MaxTicks == 1
MaxLoads == 2
MaxMinimapRenders == 1
MaxMagnitude == 1000
MaxAverageDenominator == 100000

(***************************************************************************)
(* Exact rational arithmetic.                                              *)
(***************************************************************************)
Abs(n) == IF n < 0 THEN -n ELSE n

RECURSIVE GCD(_, _)
GCD(a, b) == IF b = 0 THEN a ELSE GCD(b, a % b)

Norm(n, d) ==
    LET s == IF d < 0 THEN -1 ELSE 1
        g == GCD(Abs(n), Abs(d))
    IN  <<(s * n) \div g, (s * d) \div g>>

R(n) == <<n, 1>>
RAdd(a, b) == Norm(a[1] * b[2] + b[1] * a[2], a[2] * b[2])
RNeg(a) == <<-a[1], a[2]>>
RSub(a, b) == RAdd(a, RNeg(b))
RMul(a, b) == Norm(a[1] * b[1], a[2] * b[2])
RDiv(a, b) == Norm(a[1] * b[2], a[2] * b[1])
RLt(a, b) == a[1] * b[2] < b[1] * a[2]
RLe(a, b) == a[1] * b[2] <= b[1] * a[2]
RAbs(a) == <<Abs(a[1]), a[2]>>
RMin(a, b) == IF RLt(b, a) THEN b ELSE a
RMax(a, b) == IF RLt(a, b) THEN b ELSE a
RSign(a) == IF a[1] > 0 THEN 1 ELSE IF a[1] < 0 THEN -1 ELSE 0

Min(a, b) == IF b < a THEN b ELSE a
Max(a, b) == IF a < b THEN b ELSE a

(***************************************************************************)
(* Configuration constants.                                                *)
(***************************************************************************)
\* maxPolygonsPerRender: configurable (VITE_MAX_POLYGONS_PER_RENDER, default
\* 100,000); the documents of the model are sized for a budget of 3.
MAX_POLYGONS_PER_RENDER == 3
LOD_CHANGE_COOLDOWN == 1000
LOD_MIN_DEPTH == 0
LOD_MAX_DEPTH == 10
LOD_INCREASE_THRESHOLD == <<3, 10>>
LOD_DECREASE_THRESHOLD == <<9, 10>>
LOD_ZOOM_OUT_THRESHOLD == <<1, 5>>
LOD_ZOOM_IN_THRESHOLD == <<2, 1>>

\* app.screen: the canvas size in pixels.
Screen == [width |-> 100, height |-> 100]

(***************************************************************************)
(* Documents (types/gds.ts).  A polygon is modelled by its layer key and   *)
(* its bounding box; a layer key is the pair <<layer, datatype>>.          *)
(***************************************************************************)
BB(x0, y0, x1, y1) == [minX |-> x0, minY |-> y0, maxX |-> x1, maxY |-> y1]
Poly(l, bb) == [layer |-> <<l, 0>>, boundingBox |-> bb]
Inst(ref, x, y, rot, mir, mag) ==
    [cellRef |-> ref, x |-> x, y |-> y, rotation |-> rot, mirror |-> mir,
     magnification |-> mag]
Cell(polys, insts, skip) ==
    [polygons |-> polys, instances |-> insts, skipInMinimap |-> skip]

\* One top cell with a visible layer, a hidden layer, a layer without a
\* table entry, and a two-level hierarchy.
DocA ==
    [name |-> "a.gds",
     cells |-> [n \in {"TOP", "SUB", "LEAF"} |->
        CASE n = "TOP" ->
               Cell(<<Poly(1, BB(0, 0, 40, 40)), Poly(2, BB(50, 50, 60, 60)),
                      Poly(3, BB(70, 0, 80, 10))>>,
                    <<Inst("SUB", 100, 0, 0, FALSE, 1)>>, FALSE)
          [] n = "SUB" ->
               Cell(<<Poly(1, BB(0, 0, 20, 20))>>,
                    <<Inst("LEAF", 0, 30, 90, FALSE, 1)>>, FALSE)
          [] n = "LEAF" ->
               Cell(<<Poly(2, BB(0, 0, 5, 5)), Poly(1, BB(0, 0, 10, 10))>>,
                    <<>>, TRUE)],
     layers |-> [k \in {<<1, 0>>, <<2, 0>>} |-> [visible |-> (k = <<1, 0>>)]],
     topCells |-> <<"TOP">>,
     boundingBox |-> BB(0, 0, 120, 60)]

\* Two top cells; the first has the same name as DocA's, other geometry;
\* together they hold more polygons than the budget.
DocB ==
    [name |-> "b.gds",
     cells |-> [n \in {"TOP", "AUX"} |->
        CASE n = "TOP" ->
               Cell(<<Poly(1, BB(200, 0, 300, 100)), Poly(1, BB(400, 0, 500, 100))>>,
                    <<>>, FALSE)
          [] n = "AUX" ->
               Cell(<<Poly(1, BB(100, 400, 200, 500)), Poly(2, BB(100, 0, 110, 10)),
                      Poly(1, BB(400, 400, 500, 500))>>,
                    <<>>, FALSE)],
     layers |-> [k \in {<<1, 0>>, <<2, 0>>} |-> [visible |-> TRUE]],
     topCells |-> <<"TOP", "AUX">>,
     boundingBox |-> BB(100, 0, 500, 500)]

\* A cell reference that carries an array (arrayRows, arrayCols and the
\* spacings are optional fields of CellInstance).
ArrayInst(instance, rows, cols, spacingX, spacingY) ==
    [arrayRows |-> rows, arrayCols |-> cols, arraySpacingX |-> spacingX,
     arraySpacingY |-> spacingY] @@ instance

\* A top cell without polygons of its own that refers to CELL_A through a
\* 1 x 2 array, to CELL_B and to CELL_A again; CELL_A refers to CELL_D; a
\* second top cell follows it.
DocC ==
    [name |-> "c.gds",
     cells |-> [n \in {"TOP", "CELL_A", "CELL_B", "CELL_D", "EXTRA"} |->
        CASE n = "TOP" ->
               Cell(<<>>,
                    <<ArrayInst(Inst("CELL_A", 0, 0, 0, FALSE, 1), 1, 2, 200, 200),
                      Inst("CELL_B", 0, 300, 0, FALSE, 1),
                      Inst("CELL_A", 600, 0, 0, FALSE, 1)>>, FALSE)
          [] n = "CELL_A" ->
               Cell(<<Poly(1, BB(0, 0, 100, 100))>>,
                    <<Inst("CELL_D", 0, 100, 0, TRUE, 2)>>, FALSE)
          [] n = "CELL_B" ->
               Cell(<<Poly(1, BB(0, 0, 10, 10)), Poly(1, BB(20, 0, 30, 10)),
                      Poly(1, BB(40, 0, 50, 10))>>, <<>>, FALSE)
          [] n = "CELL_D" ->
               Cell(<<Poly(1, BB(0, 0, 10, 20))>>, <<>>, FALSE)
          [] n = "EXTRA" ->
               Cell(<<Poly(1, BB(0, 500, 100, 600))>>, <<>>, FALSE)],
     layers |-> [k \in {<<1, 0>>} |-> [visible |-> TRUE]],
     topCells |-> <<"TOP", "EXTRA">>,
     boundingBox |-> BB(0, 0, 700, 600)]

\* A document without cells.
DocD ==
    [name |-> "d.gds",
     cells |-> [n \in {} |-> Cell(<<>>, <<>>, FALSE)],
     layers |-> [k \in {} |-> [visible |-> TRUE]],
     topCells |-> <<>>,
     boundingBox |-> BB(0, 0, 0, 0)]

\* A chain of references twelve cells long: N0 is the top cell, each cell
\* holds one polygon and refers to the next, N11 lies eleven references
\* below the top cell.
ChainNames ==
    <<"N0", "N1", "N2", "N3", "N4", "N5", "N6", "N7", "N8", "N9", "N10", "N11">>
DocE ==
    [name |-> "e.gds",
     cells |-> [n \in {ChainNames[i] : i \in DOMAIN ChainNames} |->
        LET i == CHOOSE j \in DOMAIN ChainNames : ChainNames[j] = n
        IN  Cell(<<Poly(1, BB(10 * i, 0, 10 * i + 10, 10))>>,
                 IF i < Len(ChainNames)
                 THEN <<Inst(ChainNames[i + 1], 0, 0, 0, FALSE, 1)>>
                 ELSE <<>>,
                 FALSE)],
     layers |-> [k \in {<<1, 0>>} |-> [visible |-> TRUE]],
     topCells |-> <<"N0">>,
     boundingBox |-> BB(10, 0, 130, 10)]

\* A reference to a cell the document does not hold, and a cycle of
\* references: TOP refers to LOOP and LOOP to TOP.
DocF ==
    [name |-> "f.gds",
     cells |-> [n \in {"TOP", "LOOP"} |->
        CASE n = "TOP" ->
               Cell(<<Poly(1, BB(0, 0, 10, 10))>>,
                    <<Inst("GONE", 0, 0, 0, FALSE, 1),
                      Inst("LOOP", 20, 0, 0, FALSE, 1)>>, FALSE)
          [] n = "LOOP" ->
               Cell(<<Poly(1, BB(0, 0, 10, 10))>>,
                    <<Inst("TOP", 20, 0, 0, FALSE, 1)>>, FALSE)],
     layers |-> [k \in {<<1, 0>>} |-> [visible |-> TRUE]],
     topCells |-> <<"TOP">>,
     boundingBox |-> BB(0, 0, 50, 10)]

DocIds == {"a", "b", "c", "d", "e", "f"}
Docs ==
    [id \in DocIds |->
        CASE id = "a" -> DocA
          [] id = "b" -> DocB
          [] id = "c" -> DocC
          [] id = "d" -> DocD
          [] id = "e" -> DocE
          [] OTHER -> DocF]

\* The GDSDocument objects the page holds, by file: what the parser gave
\* for each file, kept as it is.
VARIABLE documents

\* The documents the viewer renders.
ViewerDocs == {"a", "b"}

NoDoc == "none"

(***************************************************************************)
(* PixiRenderer.renderCellGeometry: the batches (one Graphics and one      *)
(* RTreeItem per visible layer of each cell instance) of a cell and of its *)
(* instances down to maxDepth, and the number of polygons rendered.        *)
(***************************************************************************)
RECURSIVE SortedSeq(_)
SortedSeq(S) ==
    IF S = {} THEN <<>>
    ELSE LET m == CHOOSE x \in S : \A y \in S : x <= y
         IN  <<m>> \o SortedSeq(S \ {m})

\* Array.from(document.cells.values()): the model lists cells in a fixed order.
RECURSIVE SortedNames(_)
SortedNames(S) ==
    IF S = {} THEN <<>>
    ELSE LET m == CHOOSE x \in S : TRUE
         IN  <<m>> \o SortedNames(S \ {m})

\* LayerShown without the test of layer.visible.
LayerShownIgnoringVisible(doc, layerKey) ==
    layerKey \in DOMAIN doc.layers

\* `const layer = document.layers.get(layerKey); if (!layer || !layer.visible) continue;`
LayerShown(doc, layerKey) ==
    layerKey \in DOMAIN doc.layers /\ doc.layers[layerKey].visible

\* The polygons of a cell that renderCellGeometry adds to a Graphics.
DrawnPolygons(doc, cell) ==
    SelectSeq(cell.polygons, LAMBDA p : LayerShown(doc, p.layer))

\* layerBounds of one layer: the union of the polygons' bounding boxes.
LayerBounds(polys, layerKey) ==
    LET S == {i \in 1..Len(polys) : polys[i].layer = layerKey}
        pick(f(_), lo) ==
            LET m == CHOOSE i \in S : \A j \in S :
                        IF lo THEN f(polys[i].boundingBox) <= f(polys[j].boundingBox)
                              ELSE f(polys[i].boundingBox) >= f(polys[j].boundingBox)
            IN  f(polys[m].boundingBox)
    IN  [minX |-> pick(LAMBDA b : b.minX, TRUE), minY |-> pick(LAMBDA b : b.minY, TRUE),
         maxX |-> pick(LAMBDA b : b.maxX, FALSE), maxY |-> pick(LAMBDA b : b.maxY, FALSE)]

\* The RTreeItems (with the Graphics each one carries) of a cell's own polygons.
CellItems(docId, cellName, x, y, rotation, mirror, magnification) ==
    LET doc == documents[docId]
        polys == DrawnPolygons(doc, doc.cells[cellName])
        first == {i \in 1..Len(polys) : \A j \in 1..(i - 1) : polys[j].layer # polys[i].layer}
        order == SortedSeq(first)
    IN  [n \in 1..Len(order) |->
            LET layerKey == polys[order[n]].layer
                bounds == LayerBounds(polys, layerKey)
            IN  [minX |-> bounds.minX + x, minY |-> bounds.minY + y,
                 maxX |-> bounds.maxX + x, maxY |-> bounds.maxY + y,
                 id |-> <<cellName, layerKey, x, y>>,
                 graphics |->
                    [doc |-> docId, cell |-> cellName, layer |-> layerKey,
                     polygons |-> Cardinality({i \in 1..Len(polys) : polys[i].layer = layerKey}),
                     x |-> x, y |-> y, rotation |-> rotation,
                     scaleX |-> magnification * (IF mirror THEN -1 ELSE 1),
                     scaleY |-> magnification, bounds |-> bounds]]]

NoneRendered == [rendered |-> 0, items |-> <<>>]

RECURSIVE renderCellGeometry(_, _, _, _, _, _, _, _, _)
RECURSIVE RenderInstances(_, _, _, _, _, _, _, _, _, _)

\* renderCellGeometry without the test of maxDepth.
renderCellGeometryIgnoringDepth(docId, cellName, x, y, rotation, mirror, magnification, maxDepth, polygonBudget) ==
    IF polygonBudget <= 0 THEN NoneRendered
    ELSE
      LET doc == documents[docId]
          items == CellItems(docId, cellName, x, y, rotation, mirror, magnification)
          renderedPolygons == Len(DrawnPolygons(doc, doc.cells[cellName]))
          remainingBudget == polygonBudget - renderedPolygons
          sub == IF remainingBudget > 0
                 THEN RenderInstances(docId, doc.cells[cellName].instances, 1, x, y,
                                      rotation, mirror, magnification, maxDepth,
                                      remainingBudget)
                 ELSE NoneRendered
      IN  [rendered |-> renderedPolygons + sub.rendered, items |-> items \o sub.items]

renderCellGeometry(docId, cellName, x, y, rotation, mirror, magnification, maxDepth, polygonBudget) ==
    IF polygonBudget <= 0 THEN NoneRendered
    ELSE
      LET doc == documents[docId]
          items == CellItems(docId, cellName, x, y, rotation, mirror, magnification)
          renderedPolygons == Len(DrawnPolygons(doc, doc.cells[cellName]))
          remainingBudget == polygonBudget - renderedPolygons
          sub == IF maxDepth > 0 /\ remainingBudget > 0
                 THEN RenderInstances(docId, doc.cells[cellName].instances, 1, x, y,
                                      rotation, mirror, magnification, maxDepth,
                                      remainingBudget)
                 ELSE NoneRendered
      IN  [rendered |-> renderedPolygons + sub.rendered, items |-> items \o sub.items]

\* The loop over cell.instances with maxDepth passed on as it is.
RenderInstancesKeepingDepth(docId, instances, k, x, y, rotation, mirror, magnification, maxDepth, remainingBudget) ==
    IF k > Len(instances) \/ remainingBudget <= 0 THEN NoneRendered
    ELSE
      LET instance == instances[k]
          r == IF instance.cellRef \in DOMAIN documents[docId].cells
               THEN renderCellGeometry(docId, instance.cellRef, x + instance.x,
                                       y + instance.y, rotation + instance.rotation,
                                       mirror # instance.mirror,
                                       magnification * instance.magnification,
                                       maxDepth, remainingBudget)
               ELSE NoneRendered
          rest == RenderInstances(docId, instances, k + 1, x, y, rotation, mirror,
                                  magnification, maxDepth, remainingBudget - r.rendered)
      IN  [rendered |-> r.rendered + rest.rendered, items |-> r.items \o rest.items]

\* The loop over cell.instances, from the k-th instance on.
RenderInstances(docId, instances, k, x, y, rotation, mirror, magnification, maxDepth, remainingBudget) ==
    IF k > Len(instances) \/ remainingBudget <= 0 THEN NoneRendered
    ELSE
      LET instance == instances[k]
          r == IF instance.cellRef \in DOMAIN documents[docId].cells
               THEN renderCellGeometry(docId, instance.cellRef, x + instance.x,
                                       y + instance.y, rotation + instance.rotation,
                                       mirror # instance.mirror,
                                       magnification * instance.magnification,
                                       maxDepth - 1, remainingBudget)
               ELSE NoneRendered
          rest == RenderInstances(docId, instances, k + 1, x, y, rotation, mirror,
                                  magnification, maxDepth, remainingBudget - r.rendered)
      IN  [rendered |-> r.rendered + rest.rendered, items |-> r.items \o rest.items]

(***************************************************************************)
(* State.                                                                  *)
(***************************************************************************)
VARIABLES
    renderer,   \* the PixiRenderer object and its suspended async calls
    now,        \* performance.now(), in ms
    ticks,      \* number of clock steps taken
    inputs,     \* number of user viewport events handled
    renders,    \* number of renderGDSDocument calls started by the viewer
    lastOp,     \* the last operation on the renderer, and the async call it resumed
    minimap,    \* the MinimapRenderer object
    minimapRenders, \* number of minimap renders done
    gdsStore,   \* the gdsStore state
    loadCalls,  \* the suspended file loads
    loads,      \* number of file loads started
    lastLoad    \* what the last step of a file load did

rendererVars == <<renderer, now, ticks, inputs, renders, lastOp>>
minimapVars == <<minimap, minimapRenders>>
loaderVars == <<gdsStore, loadCalls, loads, lastLoad>>

TickMs == {1000}

NoCall == [doc |-> NoDoc, pc |-> "none", i |-> 0, polygonBudget |-> 0,
           totalPolygons |-> 0, lod |-> FALSE, depth |-> 0, commit |-> 0,
           progress |-> <<>>]

\* `onProgress?.(progress, message)`: the call keeps what it has reported.
onProgress(c, progress, message) ==
    [c EXCEPT !.progress = Append(@, [progress |-> progress, message |-> message])]
Op(name) == [op |-> name, call |-> NoCall]
CallOp(name, call) == [op |-> name, call |-> call]

(***************************************************************************)
(* Viewport: getViewportBounds and SpatialIndex.query (rbush search: the   *)
(* items whose box intersects the query box, borders included).            *)
(***************************************************************************)
getViewportBounds(s) ==
    LET scale == s.scaleX
        scaleY == s.scaleY
        x == RDiv(RNeg(s.x), scale)
        y == RDiv(RNeg(s.y), scaleY)
        width == RDiv(R(Screen.width), scale)
        height == RDiv(R(Screen.height), RAbs(scaleY))
    IN  IF RLt(scaleY, R(0))
        THEN [minX |-> x, minY |-> RSub(y, height), maxX |-> RAdd(x, width), maxY |-> y]
        ELSE [minX |-> x, minY |-> y, maxX |-> RAdd(x, width), maxY |-> RAdd(y, height)]

Intersects(bbox, item) ==
    /\ RLe(R(item.minX), bbox.maxX)
    /\ RLe(R(item.minY), bbox.maxY)
    /\ RLe(bbox.minX, R(item.maxX))
    /\ RLe(bbox.minY, R(item.maxY))

query(index, bbox) == {item \in index : Intersects(bbox, item)}

(***************************************************************************)
(* updateScaleBar: the bar is labelled with a power of ten of micrometers, *)
(* 10 ** Math.floor(Math.log10(viewWidthMicrometers / 4)).                 *)
(***************************************************************************)
\* documentUnits.database / documentUnits.user, for 1e-9 and 1e-6.
DbToUserUnits == <<1, 1000>>

viewWidthMicrometers(s) ==
    LET bounds == getViewportBounds(s)
    IN  RMul(RSub(bounds.maxX, bounds.minX), DbToUserUnits)

\* The label is at least 1 nm (0.001 um) and at most 1 m (1,000,000 um):
\* 0.001 <= viewWidthMicrometers / 4 < 10,000,000.
ScaleBarLabelled(s) ==
    LET quarter == RDiv(viewWidthMicrometers(s), R(4))
    IN  RLe(<<1, 1000>>, quarter) /\ quarter[1] \div quarter[2] < 10000000

(***************************************************************************)
(* mainContainer.getBounds(): the bounds, in screen coordinates, of the    *)
(* visible Graphics under the main container (each drawn in its cell       *)
(* container's transform: scale, then rotation, then translation).         *)
(***************************************************************************)
Rotate(p, rotation) ==
    LET q == ((rotation % 360) + 360) % 360
    IN  CASE q = 0 -> p
          [] q = 90 -> <<-p[2], p[1]>>
          [] q = 180 -> <<-p[1], -p[2]>>
          [] q = 270 -> <<p[2], -p[1]>>
          [] OTHER -> p

\* The corners of a Graphics in the main container's coordinates.
Corners(g) ==
    {LET r == Rotate(<<c[1] * g.scaleX, c[2] * g.scaleY>>, g.rotation)
     IN  <<r[1] + g.x, r[2] + g.y>> :
       c \in {<<g.bounds.minX, g.bounds.minY>>, <<g.bounds.minX, g.bounds.maxY>>,
              <<g.bounds.maxX, g.bounds.minY>>, <<g.bounds.maxX, g.bounds.maxY>>}}

SetMin(S) == CHOOSE x \in S : \A y \in S : x <= y
SetMax(S) == CHOOSE x \in S : \A y \in S : x >= y

getBounds(s) ==
    LET pts == UNION {Corners(s.graphics[g]) : g \in {h \in DOMAIN s.graphics : s.graphics[h].visible}}
    IN  IF pts = {} THEN [x |-> R(0), y |-> R(0), width |-> R(0), height |-> R(0)]
        ELSE
          LET x0 == RAdd(RMul(R(SetMin({q[1] : q \in pts})), s.scaleX), s.x)
              x1 == RAdd(RMul(R(SetMax({q[1] : q \in pts})), s.scaleX), s.x)
              y0 == RAdd(RMul(R(SetMin({q[2] : q \in pts})), s.scaleY), s.y)
              y1 == RAdd(RMul(R(SetMax({q[2] : q \in pts})), s.scaleY), s.y)
          IN  [x |-> RMin(x0, x1), y |-> RMin(y0, y1),
               width |-> RAbs(RSub(x1, x0)), height |-> RAbs(RSub(y1, y0))]

(***************************************************************************)
(* LOD controller (LOD DevLog, section 1.2).                               *)
(***************************************************************************)
\* Exponential moving average (90% old, 10% new).
updateLODMetrics(lodMetrics, visibleCount) ==
    [lodMetrics EXCEPT
       \* 0.9 * avg + 0.1 * visibleCount, over the common denominator
       !.avgVisiblePolygons = Norm(9 * @[1] + visibleCount * @[2], 10 * @[2]),
       !.lastVisibleCount = visibleCount]

hasZoomChangedSignificantly(s, currentZoom) ==
    LET lastZoom == s.lodMetrics.lastZoomLevel
        zoomOutThreshold == RMul(lastZoom, LOD_ZOOM_OUT_THRESHOLD)
        zoomInThreshold == RMul(lastZoom, LOD_ZOOM_IN_THRESHOLD)
    IN  RLt(currentZoom, zoomOutThreshold) \/ RLt(zoomInThreshold, currentZoom)

\* calculateOptimalDepth without Math.min and Math.max.
calculateOptimalDepthUnclamped(s, visibleCount) ==
    LET utilization == <<visibleCount, MAX_POLYGONS_PER_RENDER>>
    IN  IF RLt(utilization, LOD_INCREASE_THRESHOLD) THEN s.currentRenderDepth + 1
        ELSE IF RLt(LOD_DECREASE_THRESHOLD, utilization) THEN s.currentRenderDepth - 1
        ELSE s.currentRenderDepth

calculateOptimalDepth(s, visibleCount) ==
    LET utilization == <<visibleCount, MAX_POLYGONS_PER_RENDER>>
    IN  IF RLt(utilization, LOD_INCREASE_THRESHOLD)
        THEN Min(LOD_MAX_DEPTH, s.currentRenderDepth + 1)
        ELSE IF RLt(LOD_DECREASE_THRESHOLD, utilization)
        THEN Max(LOD_MIN_DEPTH, s.currentRenderDepth - 1)
        ELSE s.currentRenderDepth

\* shouldChangeLOD without the cooldown test.
shouldChangeLODWithoutCooldown(s, visibleCount, newDepth) ==
    newDepth # s.currentRenderDepth

shouldChangeLOD(s, visibleCount, newDepth) ==
    /\ newDepth # s.currentRenderDepth
    /\ ~(now - s.lodMetrics.lastDepthChange < LOD_CHANGE_COOLDOWN)

\* clearInstanceGraphics: "For MVP: Clear all and re-render".
clearInstanceGraphics(s) ==
    [s EXCEPT !.graphics = <<>>, !.allGraphicsItems = <<>>, !.spatialIndex = {}]

\* The synchronous head of renderGDSDocument, up to its first await.
startRender(s, docId, isLod) ==
    [s EXCEPT !.calls = Append(@, onProgress(
                                  [doc |-> docId, pc |-> "prepare", i |-> 0,
                                   polygonBudget |-> 0, totalPolygons |-> 0,
                                   lod |-> isLod, depth |-> s.currentRenderDepth,
                                   commit |-> s.lodMetrics.depthChangeCount,
                                   progress |-> <<>>],
                                  0, "Preparing to render...")),
              !.started = docId]

\* triggerLODRerender up to the await inside renderGDSDocument; what follows
\* the await runs when the call finishes (FinishRender).
triggerLODRerender(s) ==
    IF s.currentDocument = NoDoc THEN s
    ELSE startRender(clearInstanceGraphics(s), s.currentDocument, TRUE)

performViewportUpdate(s) ==
    LET viewportBounds == getViewportBounds(s)
        visibleItems == query(s.spatialIndex, viewportBounds)
        visibleIds == {item.id : item \in visibleItems}
        items == s.allGraphicsItems
        \* items carry no layer/datatype, so layerVisibility.get(...) ?? true is true
        isVisible(item) == item.id \in visibleIds
        culled == {items[k].data : k \in DOMAIN items}
        shown == {items[k].data : k \in {j \in DOMAIN items : isVisible(items[j])}}
        visibleCount == Cardinality({k \in DOMAIN items : isVisible(items[k])})
        s1 == [s EXCEPT
                 !.graphics = [g \in DOMAIN @ |->
                                 IF g \in culled THEN [@[g] EXCEPT !.visible = (g \in shown)]
                                 ELSE @[g]],
                 !.lodMetrics = updateLODMetrics(@, visibleCount)]
        currentZoom == RAbs(s.scaleX)
        zoomChanged == hasZoomChangedSignificantly(s1, currentZoom)
        newDepth == calculateOptimalDepth(s1, visibleCount)
    IN  IF zoomChanged /\ shouldChangeLOD(s1, visibleCount, newDepth)
        THEN triggerLODRerender(
               [s1 EXCEPT !.currentRenderDepth = newDepth,
                          !.lodMetrics.lastDepthChange = now,
                          !.lodMetrics.lastZoomLevel = currentZoom,
                          !.lodMetrics.depthChangeCount = @ + 1,
                          \* updateZoomThresholds
                          !.lodMetrics.zoomThresholdLow = RMul(currentZoom, LOD_ZOOM_OUT_THRESHOLD),
                          !.lodMetrics.zoomThresholdHigh = RMul(currentZoom, LOD_ZOOM_IN_THRESHOLD)])
        ELSE s1

(***************************************************************************)
(* PixiRenderer: updateViewport, fitToView, clear, and the handlers.       *)
(***************************************************************************)
updateViewport(s) ==
    IF Len(s.allGraphicsItems) = 0 THEN s ELSE performViewportUpdate(s)

fitToView(s) ==
    LET bounds == getBounds(s)
    IN  IF bounds.width = R(0) \/ bounds.height = R(0) THEN s
        ELSE
          LET scaleX == RDiv(R(Screen.width), bounds.width)
              scaleY == RDiv(R(Screen.height), bounds.height)
              scale == RMul(RMin(scaleX, scaleY), <<9, 10>>)
          IN  updateViewport(
                [s EXCEPT
                   !.scaleX = scale,
                   !.scaleY = RNeg(scale),
                   !.x = RSub(RDiv(RSub(R(Screen.width), RMul(bounds.width, scale)), R(2)),
                              RMul(bounds.x, scale)),
                   !.y = RSub(RDiv(RSub(R(Screen.height), RMul(bounds.height, scale)), R(2)),
                              RMul(bounds.y, scale))])

clear(s) ==
    [s EXCEPT !.graphics = <<>>, !.spatialIndex = {}, !.allGraphicsItems = <<>>]

\* renderTestGeometry(count): `rects` are the rectangles Math.random()
\* gives, each <<x, y, width, height>>.  Every Graphics goes to the main
\* container and its item to the spatial index.
renderTestGeometry(s, rects) ==
    LET cleared == clear(s)
        graphics == [i \in 1..Len(rects) |->
                       [visible |-> TRUE, doc |-> NoDoc, cell |-> "rect", layer |-> <<0, 0>>,
                        polygons |-> 1, x |-> 0, y |-> 0, rotation |-> 0,
                        scaleX |-> 1, scaleY |-> 1,
                        bounds |-> BB(rects[i][1], rects[i][2],
                                      rects[i][1] + rects[i][3], rects[i][2] + rects[i][4])]]
        items == {[minX |-> rects[i][1], minY |-> rects[i][2],
                   maxX |-> rects[i][1] + rects[i][3], maxY |-> rects[i][2] + rects[i][4],
                   id |-> <<"rect", i - 1>>, data |-> i] : i \in 1..Len(rects)}
    IN  fitToView([cleared EXCEPT !.graphics = graphics, !.spatialIndex = items])

\* The wheel listener without Math.sign(scale.y).
wheelDroppingYSign(s, zoomFactor, mouseX, mouseY) ==
    LET worldPosX == RDiv(RSub(R(mouseX), s.x), s.scaleX)
        worldPosY == RDiv(RSub(R(mouseY), s.y), s.scaleY)
        scaleX == RMul(s.scaleX, zoomFactor)
        scaleY == RMul(RAbs(s.scaleY), zoomFactor)
    IN  updateViewport(
          [s EXCEPT !.scaleX = scaleX, !.scaleY = scaleY,
                    !.x = RSub(R(mouseX), RMul(worldPosX, scaleX)),
                    !.y = RSub(R(mouseY), RMul(worldPosY, scaleY))])

\* The wheel listener of setupControls.
wheel(s, zoomFactor, mouseX, mouseY) ==
    LET worldPosX == RDiv(RSub(R(mouseX), s.x), s.scaleX)
        worldPosY == RDiv(RSub(R(mouseY), s.y), s.scaleY)
        currentYSign == R(RSign(s.scaleY))
        scaleX == RMul(s.scaleX, zoomFactor)
        scaleY == RMul(RMul(RAbs(s.scaleY), zoomFactor), currentYSign)
    IN  updateViewport(
          [s EXCEPT !.scaleX = scaleX, !.scaleY = scaleY,
                    !.x = RSub(R(mouseX), RMul(worldPosX, scaleX)),
                    !.y = RSub(R(mouseY), RMul(worldPosY, scaleY))])

\* The mousemove listener while panning.
pan(s, dx, dy) ==
    updateViewport([s EXCEPT !.x = RAdd(@, R(dx)), !.y = RAdd(@, R(dy))])

setViewportState(s, state) ==
    updateViewport([s EXCEPT !.x = state.x, !.y = state.y,
                             !.scaleX = state.scale, !.scaleY = RNeg(state.scale)])

(***************************************************************************)
(* renderGDSDocument: an async call that is suspended at each              *)
(* `await new Promise((resolve) => setTimeout(resolve, 0))`.  A call is a  *)
(* record of its locals; pc names the await it is suspended at.            *)
(***************************************************************************)
\* Advance reporting the cells done as a share of 100 instead of 80.
AdvanceReportingTo100(c, from) ==
    LET doc == documents[c.doc]
        topCellCount == Len(doc.topCells)
        found == {j \in from..(topCellCount - 1) : doc.topCells[j + 1] \in DOMAIN doc.cells}
    IN  IF found = {} THEN onProgress([c EXCEPT !.pc = "fit"], 90, "Fitting to view...")
        ELSE LET i == SetMin(found)
             IN  onProgress([c EXCEPT !.pc = "cell", !.i = i],
                            ((i + 1) * 100) \div topCellCount, "Rendering cell...")

\* Run the top-cell loop from index `from` (0-based) to its next await.
Advance(c, from) ==
    LET doc == documents[c.doc]
        topCellCount == Len(doc.topCells)
        found == {j \in from..(topCellCount - 1) : doc.topCells[j + 1] \in DOMAIN doc.cells}
    IN  IF found = {} THEN onProgress([c EXCEPT !.pc = "fit"], 90, "Fitting to view...")
        ELSE LET i == SetMin(found)
             IN  onProgress([c EXCEPT !.pc = "cell", !.i = i],
                            (i * 80) \div topCellCount, "Rendering cell...")

\* A new Graphics is visible; its RTreeItem goes to the index and to allGraphicsItems.
AddItems(s, items) ==
    LET base == Len(s.graphics)
        rtree == [n \in 1..Len(items) |->
                    [minX |-> items[n].minX, minY |-> items[n].minY,
                     maxX |-> items[n].maxX, maxY |-> items[n].maxY,
                     id |-> items[n].id, data |-> base + n]]
    IN  [s EXCEPT
           !.graphics = @ \o [n \in 1..Len(items) |->
                                [visible |-> TRUE, doc |-> items[n].graphics.doc,
                                 cell |-> items[n].graphics.cell,
                                 layer |-> items[n].graphics.layer,
                                 polygons |-> items[n].graphics.polygons,
                                 x |-> items[n].graphics.x, y |-> items[n].graphics.y,
                                 rotation |-> items[n].graphics.rotation,
                                 scaleX |-> items[n].graphics.scaleX,
                                 scaleY |-> items[n].graphics.scaleY,
                                 bounds |-> items[n].graphics.bounds]],
           !.spatialIndex = @ \cup {rtree[n] : n \in 1..Len(items)},
           !.allGraphicsItems = @ \o rtree]

\* From the first await to the await of the first top cell (or of the fit).
renderPrepare(s, k) ==
    LET c == s.calls[k]
        s1 == [clear(s) EXCEPT !.currentRenderDepth = 0, !.currentDocument = c.doc]
    IN  [s1 EXCEPT !.calls[k] =
            Advance([c EXCEPT !.totalPolygons = 0,
                              !.polygonBudget = MAX_POLYGONS_PER_RENDER], 0)]

\* One top cell: renderCellGeometry, the budget, and on to the next await.
renderTopCell(s, k) ==
    LET c == s.calls[k]
        r == renderCellGeometry(c.doc, documents[c.doc].topCells[c.i + 1], 0, 0, 0, FALSE, 1,
                                s.currentRenderDepth, c.polygonBudget)
        c1 == [c EXCEPT !.totalPolygons = @ + r.rendered,
                        !.polygonBudget = @ - r.rendered]
    IN  [AddItems(s, r.items) EXCEPT !.calls[k] =
            IF c1.polygonBudget <= 0
            THEN onProgress([c1 EXCEPT !.pc = "fit"], 90, "Fitting to view...")
            ELSE Advance(c1, c.i + 1)]

RemoveAt(seq, k) == [n \in 1..(Len(seq) - 1) |-> IF n < k THEN seq[n] ELSE seq[n + 1]]

\* After the last await: fit, cull, and (for an LOD re-render) what follows
\* `await this.renderGDSDocument(...)` in triggerLODRerender.
renderFinish(s, k) ==
    LET s1 == updateViewport(fitToView(s))
        s2 == IF s.calls[k].lod THEN performViewportUpdate(s1) ELSE s1
    IN  [s2 EXCEPT !.calls = RemoveAt(@, k)]

(***************************************************************************)
(* MinimapRenderer: render, fitToView, renderCells, renderCellRecursive.   *)
(* A drawn polygon is recorded with its cell, its layer key and the        *)
(* transform it was drawn under.                                           *)
(***************************************************************************)
\* app.screen of the minimap canvas.
MinimapScreen == [width |-> 100, height |-> 100]

\* `const MAX_DEPTH = 10;`
MAX_DEPTH == 10

\* Math.cos and Math.sin of an angle in degrees, for quarter turns.
Cos(rotation) ==
    LET q == ((rotation % 360) + 360) % 360
    IN  CASE q = 0 -> 1 [] q = 180 -> -1 [] OTHER -> 0
Sin(rotation) ==
    LET q == ((rotation % 360) + 360) % 360
    IN  CASE q = 90 -> 1 [] q = 270 -> -1 [] OTHER -> 0

\* `layerVisibility.get(layerKey) ?? true`
MinimapLayerVisible(layerVisibility, layerKey) ==
    IF layerKey \in DOMAIN layerVisibility THEN layerVisibility[layerKey] ELSE TRUE

RECURSIVE renderCellRecursive(_, _, _, _, _, _, _, _, _)
RECURSIVE RecurseInstances(_, _, _, _, _, _, _, _, _, _)

renderCellRecursive(docId, cellName, x, y, rotation, mirror, magnification, layerVisibility, depth) ==
    LET cell == documents[docId].cells[cellName]
    IN  IF cell.skipInMinimap THEN <<>>
        ELSE IF depth > MAX_DEPTH THEN <<>>
        ELSE
          LET shown == SelectSeq(cell.polygons,
                                 LAMBDA p : MinimapLayerVisible(layerVisibility, p.layer))
              own == [n \in 1..Len(shown) |->
                        [doc |-> docId, cell |-> cellName, layer |-> shown[n].layer,
                         boundingBox |-> shown[n].boundingBox, x |-> x, y |-> y,
                         rotation |-> rotation, mirror |-> mirror,
                         magnification |-> magnification, depth |-> depth]]
          IN  own \o RecurseInstances(docId, cell.instances, 1, x, y, rotation, mirror,
                                      magnification, layerVisibility, depth)

\* The loop over cell.instances, from the k-th instance on.
RecurseInstances(docId, instances, k, x, y, rotation, mirror, magnification, layerVisibility, depth) ==
    IF k > Len(instances) THEN <<>>
    ELSE
      LET instance == instances[k]
          mx == IF mirror THEN -1 ELSE 1
          newX == x + (instance.x * Cos(rotation) * mx - instance.y * Sin(rotation))
                        * magnification
          newY == y + (instance.x * Sin(rotation) * mx + instance.y * Cos(rotation))
                        * magnification
          sub == IF instance.cellRef \in DOMAIN documents[docId].cells
                 THEN renderCellRecursive(docId, instance.cellRef, newX, newY,
                                          rotation + instance.rotation,
                                          mirror # instance.mirror,
                                          magnification * instance.magnification,
                                          layerVisibility, depth + 1)
                 ELSE <<>>
      IN  sub \o RecurseInstances(docId, instances, k + 1, x, y, rotation, mirror,
                                  magnification, layerVisibility, depth)

RECURSIVE RenderTopCells(_, _, _, _)
RenderTopCells(docId, topCells, k, layerVisibility) ==
    IF k > Len(topCells) THEN <<>>
    ELSE renderCellRecursive(docId, topCells[k], 0, 0, 0, FALSE, 1, layerVisibility, 0)
           \o RenderTopCells(docId, topCells, k + 1, layerVisibility)

renderCells(docId, layerVisibility) ==
    LET doc == documents[docId]
        listed == SelectSeq(doc.topCells, LAMBDA n : n \in DOMAIN doc.cells)
        \* fallback: the cells no instance refers to
        unreferenced == SortedNames({c \in DOMAIN doc.cells :
                           \A d \in DOMAIN doc.cells :
                              \A i \in DOMAIN doc.cells[d].instances :
                                 doc.cells[d].instances[i].cellRef # c})
        topCells == IF Len(doc.topCells) > 0 THEN listed ELSE unreferenced
    IN  RenderTopCells(docId, topCells, 1, layerVisibility)

minimapFitToView(m, bounds) ==
    LET docWidth == bounds.maxX - bounds.minX
        docHeight == bounds.maxY - bounds.minY
        padding == 10
    IN  IF docWidth <= 0 \/ docHeight <= 0 THEN m
        ELSE
          LET scaleX == <<MinimapScreen.width - padding * 2, docWidth>>
              scaleY == <<MinimapScreen.height - padding * 2, docHeight>>
              scale == RMin(Norm(scaleX[1], scaleX[2]), Norm(scaleY[1], scaleY[2]))
              centerX == <<bounds.minX + bounds.maxX, 2>>
              centerY == <<bounds.minY + bounds.maxY, 2>>
          IN  [m EXCEPT !.scaleX = scale, !.scaleY = RNeg(scale),
                        !.x = RSub(<<MinimapScreen.width, 2>>,
                                   RMul(Norm(centerX[1], centerX[2]), scale)),
                        !.y = RAdd(<<MinimapScreen.height, 2>>,
                                   RMul(Norm(centerY[1], centerY[2]), scale))]

minimapRender(m, docId, layerVisibility) ==
    LET bounds == documents[docId].boundingBox
        cleared == [m EXCEPT !.drawn = <<>>, !.doc = docId,
                             !.layerVisibility = layerVisibility]
    IN  IF bounds.maxX <= bounds.minX \/ bounds.maxY <= bounds.minY THEN cleared
        ELSE [minimapFitToView(cleared, bounds) EXCEPT
                 !.drawn = renderCells(docId, layerVisibility)]

InitMinimap ==
    [x |-> R(0), y |-> R(0), scaleX |-> R(1), scaleY |-> R(1), drawn |-> <<>>,
     doc |-> NoDoc, layerVisibility |-> <<>>]

(***************************************************************************)
(* gdsStore (stores/gdsStore): the loaded document and the load status.    *)
(* Each method appends its name to `log`, the calls made in the current    *)
(* step of a load.                                                         *)
(***************************************************************************)
InitStore ==
    [document |-> NoDoc, fileName |-> "", isLoading |-> FALSE, loadingProgress |-> 0,
     error |-> FALSE, log |-> <<>>]

setLoading(store, progress) ==
    [store EXCEPT !.isLoading = TRUE, !.loadingProgress = progress,
                  !.log = Append(@, "setLoading")]

updateProgress(store, progress) ==
    [store EXCEPT !.loadingProgress = progress, !.log = Append(@, "updateProgress")]

setDocument(store, document, fileName) ==
    [store EXCEPT !.document = document, !.fileName = fileName, !.isLoading = FALSE,
                  !.error = FALSE, !.log = Append(@, "setDocument")]

setError(store) ==
    [store EXCEPT !.error = TRUE, !.isLoading = FALSE, !.log = Append(@, "setError")]

(***************************************************************************)
(* File loads: loadGDSIIFromBuffer (gdsLoader.ts) and handleFile           *)
(* (FileUpload.svelte).  A file is its extension, whether its content      *)
(* looks like DXF, and what the parser or converter makes of it: a         *)
(* document, or "throw".  A load returns the store and, when it is         *)
(* suspended at an await, the call that is pending.                        *)
(***************************************************************************)
Extensions == {"gds", "dxf", "txt"}
ParseResults == DocIds \cup {"throw"}
Files == [ext : Extensions, dxfContent : BOOLEAN, result : ParseResults]

Returned(store) == [store |-> store, pending |-> <<>>]
Suspended(store, call) == [store |-> store, pending |-> <<call>>]

\* loadGDSIIFromBuffer up to `await convertDxfToGds(...)` or `await parseGDSII(...)`.
loadGDSIIFromBuffer(store, file) ==
    LET isDxf == file.ext = "dxf" \/ file.dxfContent
        isGds == file.ext \in {"gds", "gdsii"}
    IN  IF ~isGds /\ ~isDxf THEN Returned(setError(store))
        ELSE Suspended(setLoading(store, 5),
                       [fn |-> "loadGDSIIFromBuffer", pc |-> "parse", file |-> file])

\* loadGDSIIFromBufferParsed with a catch block that drops the document.
loadGDSIIFromBufferParsedClearing(store, file) ==
    IF file.result = "throw" THEN Returned(setError(setDocument(store, NoDoc, "")))
    ELSE Returned(setDocument(store, file.result, file.ext))

\* loadGDSIIFromBuffer from the await on: setDocument, or the catch block.
loadGDSIIFromBufferParsed(store, file) ==
    IF file.result = "throw" THEN Returned(setError(store))
    ELSE Returned(setDocument(store, file.result, file.ext))

\* handleFile up to `await file.arrayBuffer()`.
handleFile(store, file) ==
    IF file.ext \notin {"gds", "gdsii"} THEN Returned(setError(store))
    ELSE Suspended(setLoading(store, 0),
                   [fn |-> "handleFile", pc |-> "read", file |-> file])

\* handleFile from the first await to `await parseGDSII(arrayBuffer)`.
handleFileRead(store, file) ==
    Suspended(updateProgress(store, 50),
              [fn |-> "handleFile", pc |-> "parse", file |-> file])

\* handleFile from the second await on: setDocument, or the catch block.
handleFileParsed(store, file) ==
    IF file.result = "throw" THEN Returned(setError(store))
    ELSE Returned(setDocument(updateProgress(store, 100), file.result, file.ext))

NoLoad == [op |-> "none", resumed |-> FALSE, failed |-> FALSE, parsed |-> FALSE,
           before |-> NoDoc]

(***************************************************************************)
(* Initial state: the renderer after init(), nothing rendered.             *)
(***************************************************************************)
InitRenderer ==
    [x |-> R(0), y |-> R(0), scaleX |-> R(1), scaleY |-> R(-1),
     graphics |-> <<>>, spatialIndex |-> {}, allGraphicsItems |-> <<>>,
     currentRenderDepth |-> 0,
     lodMetrics |-> [lastDepthChange |-> 0, depthChangeCount |-> 0,
                     avgVisiblePolygons |-> R(0),
                     lastVisibleCount |-> 0, lastZoomLevel |-> R(1),
                     zoomThresholdLow |-> <<1, 5>>, zoomThresholdHigh |-> R(2)],
     currentDocument |-> NoDoc, calls |-> <<>>, started |-> NoDoc]

(***************************************************************************)
(* measurementStore (stores/measurementStore): a svelte writable store,    *)
(* the module's toast timer, and the localStorage entries it writes.       *)
(* `update(fn)` is `set(fn(value))`: a store change made while fn runs is  *)
(* replaced by what fn returns.  A point is <<x, y>>, null is <<>> for     *)
(* points and for the active measurement, "null" for strings.  The Map of  *)
(* measurements is the sequence of its values in insertion order.          *)
(***************************************************************************)
VARIABLES
    measure,    \* the measurement store, its toast timer and its localStorage
    editor,     \* the editor store, its auto-save timers and its localStorage
    embed,      \* the embed API: its message listeners and what it sent
    collab,     \* the collaboration store and its file transfers in flight
    dxf         \* the DXF converter: the entity given and the polygon built

\* `const MAX_MEASUREMENTS = 50;`, scaled to the model.
MAX_MEASUREMENTS == 3
\* Measurements completed in one run.
MaxCreated == 4
\* Calls of initializeForFile, loadFromLocalStorage, clearAllMeasurements and
\* reset in one run.
MaxStoreCalls == 2
\* The largest value of Date.now().
MaxClock == 1

Null == "null"
\* `${fileName}_${fileSize}`
FileIdentifiers == {"a.gds_10", "b.gds_20"}
MeasurementPoints == {<<30, 40>>}
LimitToast == "Maximum measurements reached. Oldest measurement deleted."
NoActiveMeasurement == <<>>
EmptyActiveMeasurement == <<<<>>, <<>>>>

initialState ==
    [measurementModeActive |-> FALSE, activeMeasurement |-> NoActiveMeasurement,
     measurements |-> <<>>, measurementsVisible |-> TRUE, fileIdentifier |-> Null,
     highlightedMeasurementId |-> 0, toastMessage |-> Null]

NoItem == [present |-> FALSE, items |-> <<>>]

\* The Map after the limit check and `newMeasurements.set(measurement.id,
\* measurement)`, with `newMeasurements.size > MAX_MEASUREMENTS` as the check.
withMeasurementAboveLimit(measurements, measurement) ==
    LET oldest == CHOOSE i \in DOMAIN measurements :
                     /\ \A j \in DOMAIN measurements :
                           measurements[j].createdAt >= measurements[i].createdAt
                     /\ \A j \in 1..(i - 1) :
                           measurements[j].createdAt > measurements[i].createdAt
        kept == IF Len(measurements) > MAX_MEASUREMENTS
                THEN [n \in 1..(Len(measurements) - 1) |->
                        IF n < oldest THEN measurements[n] ELSE measurements[n + 1]]
                ELSE measurements
    IN  Append(kept, measurement)

\* The Map after the limit check and `newMeasurements.set(measurement.id,
\* measurement)`: the loop keeps the first entry with the least createdAt.
withMeasurement(measurements, measurement) ==
    LET oldest == CHOOSE i \in DOMAIN measurements :
                     /\ \A j \in DOMAIN measurements :
                           measurements[j].createdAt >= measurements[i].createdAt
                     /\ \A j \in 1..(i - 1) :
                           measurements[j].createdAt > measurements[i].createdAt
        kept == IF Len(measurements) >= MAX_MEASUREMENTS
                THEN [n \in 1..(Len(measurements) - 1) |->
                        IF n < oldest THEN measurements[n] ELSE measurements[n + 1]]
                ELSE measurements
    IN  Append(kept, measurement)

\* saveToLocalStorage(state): nothing without a fileIdentifier.
saveToLocalStorage(m, state) ==
    IF state.fileIdentifier = Null THEN m
    ELSE [m EXCEPT !.localStorage[state.fileIdentifier] =
                      [present |-> TRUE, items |-> state.measurements]]

\* showToast(message): clearTimeout, update, setTimeout.
showToast(m, message) ==
    [m EXCEPT !.store.toastMessage = message, !.toastTimeout = TRUE]

hideToast(m) ==
    [m EXCEPT !.store.toastMessage = Null, !.toastTimeout = FALSE]

\* The callback of the toast's setTimeout.
toastTimer(m) ==
    [m EXCEPT !.store.toastMessage = Null, !.toastTimeout = FALSE]

\* The rest of the update callback of addPoint and completeActiveMeasurement
\* once both points are known; `state` is the value the callback was given.
complete(m, state, point1, point2) ==
    LET measurement == [id |-> m.uuid + 1, point1 |-> point1, point2 |-> point2,
                        createdAt |-> m.clock]
        newState == [state EXCEPT
                        !.measurements = withMeasurement(@, measurement),
                        !.activeMeasurement = EmptyActiveMeasurement]
        made == [m EXCEPT !.uuid = @ + 1]
        saved == saveToLocalStorage(made, newState)
        toasted == IF Len(state.measurements) >= MAX_MEASUREMENTS
                   THEN showToast(saved, LimitToast)
                   ELSE saved
    IN  \* update: set(fn(value))
        [toasted EXCEPT !.store = newState]

addPoint(m, point) ==
    LET state == m.store
    IN  IF state.activeMeasurement = NoActiveMeasurement THEN m
        ELSE IF state.activeMeasurement[1] = <<>>
        THEN [m EXCEPT !.store.activeMeasurement = <<point, <<>>>>]
        ELSE complete(m, state, state.activeMeasurement[1], point)

setActiveMeasurement(m, activeMeasurement) ==
    [m EXCEPT !.store.activeMeasurement = activeMeasurement]

completeActiveMeasurement(m) ==
    LET state == m.store
    IN  IF state.activeMeasurement = NoActiveMeasurement THEN m
        ELSE IF state.activeMeasurement[1] = <<>> \/ state.activeMeasurement[2] = <<>>
        THEN m
        ELSE complete(m, state, state.activeMeasurement[1], state.activeMeasurement[2])

enterMeasurementMode(m) ==
    [m EXCEPT !.store.measurementModeActive = TRUE,
              !.store.activeMeasurement = EmptyActiveMeasurement]

exitMeasurementMode(m) ==
    [m EXCEPT !.store.measurementModeActive = FALSE,
              !.store.activeMeasurement = NoActiveMeasurement]

clearAllMeasurements(m) ==
    LET state == m.store
        newState == [state EXCEPT
                        !.measurements = <<>>,
                        !.activeMeasurement = IF state.measurementModeActive
                                              THEN EmptyActiveMeasurement
                                              ELSE NoActiveMeasurement,
                        !.highlightedMeasurementId = 0]
    IN  [saveToLocalStorage(m, newState) EXCEPT !.store = newState]

\* loadFromLocalStorage(fileIdentifier): the entries written by
\* saveToLocalStorage pass the field checks and keep their order.
loadFromLocalStorage(m, fileIdentifier) ==
    LET stored == m.localStorage[fileIdentifier]
    IN  IF ~stored.present THEN m
        ELSE [m EXCEPT !.store.measurements = stored.items]

initializeForFile(m, fileIdentifier) ==
    LET updated == IF m.store.fileIdentifier = fileIdentifier THEN m
                   ELSE [m EXCEPT !.store.fileIdentifier = fileIdentifier,
                                  !.store.measurements = <<>>,
                                  !.store.measurementModeActive = FALSE,
                                  !.store.activeMeasurement = NoActiveMeasurement,
                                  !.store.highlightedMeasurementId = 0,
                                  !.store.measurementsVisible = TRUE]
    IN  loadFromLocalStorage(updated, fileIdentifier)

\* reset(): clearTimeout and set(initialState).
measurementReset(m) ==
    [m EXCEPT !.store = initialState, !.toastTimeout = FALSE]

\* A list a past visit of the page left in localStorage: as many
\* measurements as the store holds at most.
StoredFull ==
    [present |-> TRUE,
     items |-> [i \in 1..MAX_MEASUREMENTS |->
                  [id |-> -i, point1 |-> <<0, 0>>, point2 |-> <<30, 40>>,
                   createdAt |-> 0]]]

InitMeasure ==
    [store |-> initialState, toastTimeout |-> FALSE,
     localStorage |-> [f \in FileIdentifiers |-> NoItem],
     uuid |-> 0, clock |-> 0, calls |-> 0, op |-> "init"]

(***************************************************************************)
(* editorStore (stores/editorStore.ts): the store, the module's            *)
(* autoSaveTimer handle, the pending setTimeout callbacks with what they   *)
(* captured, and the localStorage entries.  `writes` lists the             *)
(* localStorage.setItem calls made, `lastSet` is the last setCode call.    *)
(***************************************************************************)
\* `const AUTO_SAVE_DELAY_MS = 1000;`
AUTO_SAVE_DELAY_MS == 1000
\* Time passes in steps of half the delay.
HalfDelay == AUTO_SAVE_DELAY_MS \div 2
\* Steps of time in one run.
MaxEditorSteps == 4
\* Calls of setCode in one run.
MaxSetCodes == 3
\* Calls of enterEditorMode, exitEditorMode and reset in one run.
MaxSwitches == 2

Codes == {"x", "y"}
SessionIds == {"s1"}

\* `sessionId ? `gdsjam_code_${sessionId}` : "gdsjam_code_solo"`
storageKey(sessionId) ==
    IF sessionId = Null \/ sessionId = "" THEN "gdsjam_code_solo"
    ELSE IF sessionId = "s1" THEN "gdsjam_code_s1"
    ELSE "gdsjam_code_other"
StorageKeys == {storageKey(id) : id \in SessionIds \cup {Null}}

editorInitialState ==
    [editorModeActive |-> FALSE, code |-> "", sessionId |-> Null]

enterEditorMode(e, sessionId) ==
    LET savedCode == e.localStorage[storageKey(sessionId)]
    IN  [e EXCEPT !.store.editorModeActive = TRUE,
                  !.store.sessionId = sessionId,
                  \* `savedCode || state.code`
                  !.store.code = IF savedCode # Null /\ savedCode # ""
                                 THEN savedCode ELSE @]

exitEditorMode(e) ==
    [e EXCEPT !.store.editorModeActive = FALSE, !.store.sessionId = Null]

\* setCode without its clearTimeout.
setCodeWithoutClear(e, code) ==
    LET timer == [id |-> e.timerIds + 1, at |-> e.time + AUTO_SAVE_DELAY_MS,
                  sessionId |-> e.store.sessionId, code |-> code]
    IN  [e EXCEPT !.store.code = code,
                  !.timers = @ \cup {timer},
                  !.autoSaveTimer = timer.id,
                  !.timerIds = timer.id,
                  !.lastSet = [at |-> e.time, code |-> code,
                               sessionId |-> e.store.sessionId,
                               writes |-> Len(e.writes)]]

\* setCode: clearTimeout(autoSaveTimer), then a timer that holds the code
\* and the session of this call.
setCode(e, code) ==
    LET timer == [id |-> e.timerIds + 1, at |-> e.time + AUTO_SAVE_DELAY_MS,
                  sessionId |-> e.store.sessionId, code |-> code]
    IN  [e EXCEPT !.store.code = code,
                  !.timers = {t \in @ : t.id # e.autoSaveTimer} \cup {timer},
                  !.autoSaveTimer = timer.id,
                  !.timerIds = timer.id,
                  !.lastSet = [at |-> e.time, code |-> code,
                               sessionId |-> e.store.sessionId,
                               writes |-> Len(e.writes)]]

\* The callback of setCode's setTimeout.
autoSave(e, timer) ==
    [e EXCEPT !.localStorage[storageKey(timer.sessionId)] = timer.code,
              !.writes = Append(@, [at |-> e.time, key |-> storageKey(timer.sessionId),
                                    code |-> timer.code]),
              !.timers = @ \ {timer}]

\* reset(): set(initialState).
editorReset(e) == [e EXCEPT !.store = editorInitialState]

InitEditor ==
    [store |-> editorInitialState, autoSaveTimer |-> 0, timers |-> {}, timerIds |-> 0,
     localStorage |-> [k \in StorageKeys |-> Null],
     time |-> 0, steps |-> 0, sets |-> 0, switches |-> 0, resets |-> 0,
     writes |-> <<>>,
     lastSet |-> [at |-> 0, code |-> "", sessionId |-> Null, writes |-> 0],
     op |-> "init"]

(***************************************************************************)
(* EmbedAPI (lib/embed/EmbedAPI.ts): the object's opts and boundOnMessage, *)
(* and the window's "message" listeners; a listener is the number of the   *)
(* init call that made it.  `posted` and `loadUrl` list what the delivery  *)
(* of the last incoming message sent to the parent and asked to load.      *)
(***************************************************************************)
\* Calls of init and destroy in one run.
MaxEmbedCalls == 3
\* Incoming messages in one run.
MaxMessages == 2

\* event.data: the two messages of the API with and without a url, a
\* message of another type, an object without a type, and a string.
IncomingMessages ==
    {[kind |-> "object", type |-> "gdsjam:getState", url |-> Null],
     [kind |-> "object", type |-> "gdsjam:loadFile", url |-> "https://example.com/chip.gds"],
     [kind |-> "object", type |-> "gdsjam:loadFile", url |-> ""],
     [kind |-> "object", type |-> "gdsjam:loadFile", url |-> Null],
     [kind |-> "object", type |-> "other", url |-> Null],
     [kind |-> "object", type |-> Null, url |-> Null],
     [kind |-> "string", type |-> Null, url |-> Null]}

NoMessage == [kind |-> "none", type |-> Null, url |-> Null]

embedInit(a) ==
    [a EXCEPT !.opts = TRUE,
              !.boundOnMessage = a.made + 1,
              !.made = @ + 1,
              !.listeners = @ \cup {a.made + 1}]

embedDestroy(a) ==
    [a EXCEPT !.listeners = IF a.boundOnMessage # 0 THEN @ \ {a.boundOnMessage} ELSE @,
              !.boundOnMessage = 0,
              !.opts = FALSE]

\* handleMessage(event), run by one listener.
handleMessage(a, data) ==
    IF data.kind # "object" THEN a
    ELSE IF data.type = Null THEN a
    ELSE IF ~a.opts THEN a
    ELSE IF data.type = "gdsjam:loadFile"
    THEN IF data.url = Null \/ data.url = ""
         THEN [a EXCEPT !.posted = Append(@, "gdsjam:error")]
         ELSE [a EXCEPT !.loadUrl = Append(@, data.url)]
    ELSE IF data.type = "gdsjam:getState"
    THEN [a EXCEPT !.posted = Append(@, "gdsjam:state")]
    ELSE a

RECURSIVE dispatchEvent(_, _, _)
\* The window calls every registered listener with the event, in the order
\* the listeners were added.
dispatchEvent(a, listeners, data) ==
    IF listeners = {} THEN a
    ELSE LET first == CHOOSE l \in listeners : \A k \in listeners : l <= k
         IN  dispatchEvent(handleMessage(a, data), listeners \ {first}, data)

InitEmbed ==
    [opts |-> FALSE, boundOnMessage |-> 0, made |-> 0, listeners |-> {},
     calls |-> 0, messages |-> 0, data |-> NoMessage,
     posted |-> <<>>, loadUrl |-> <<>>, op |-> "new"]

(***************************************************************************)
(* The collaboration store (stores/collaborationStore.ts): the four file   *)
(* transfers uploadFile, downloadFile, downloadFileById, uploadFilePending.*)
(* Each is an async function: it sets the store, awaits the session        *)
(* manager, and sets the store again when the promise settles.  `transfers`*)
(* holds the calls made, each "awaiting", "resolved" or "rejected".        *)
(***************************************************************************)
\* Transfers started in one run.
MaxTransfers == 3

TransferKinds == {"uploadFile", "downloadFile", "downloadFileById", "uploadFilePending"}

\* fileTransferMessage when a transfer starts.
StartMessage(kind) ==
    CASE kind = "uploadFile" -> "Starting upload..."
      [] kind = "downloadFile" -> "Starting download..."
      [] kind = "downloadFileById" -> "Recovering file..."
      [] OTHER -> "Uploading file..."

\* fileTransferMessage when a transfer has succeeded.
CompleteMessage(kind) ==
    CASE kind = "uploadFile" -> "Upload complete"
      [] kind = "downloadFile" -> "Download complete"
      [] kind = "downloadFileById" -> "File recovered"
      [] OTHER -> "File ready, create session to share"

\* What the session manager reports through onProgress.
ProgressReports == {[progress |-> 50, message |-> "Transferring..."]}

collabInitialState ==
    [fileTransferProgress |-> 0, fileTransferMessage |-> "", isTransferring |-> FALSE]

\* The function up to its await.
transferStart(c, kind) ==
    [c EXCEPT !.store = [@ EXCEPT !.isTransferring = TRUE,
                                  !.fileTransferProgress = 0,
                                  !.fileTransferMessage = StartMessage(kind)],
              !.transfers = Append(@, [kind |-> kind, pc |-> "awaiting"]),
              !.op = kind]

\* The onProgress callback the function passes to the session manager.
transferProgress(c, k, report) ==
    [c EXCEPT !.store = [@ EXCEPT !.fileTransferProgress = report.progress,
                                  !.fileTransferMessage = report.message],
              !.op = "onProgress"]

\* After the await: the promise has resolved.
transferResolved(c, k) ==
    [c EXCEPT !.store = [@ EXCEPT !.isTransferring = FALSE,
                                  !.fileTransferProgress = 100,
                                  !.fileTransferMessage = CompleteMessage(c.transfers[k].kind)],
              !.transfers[k].pc = "resolved",
              !.op = "resolved"]

\* The catch block: the promise has rejected.
transferRejected(c, k) ==
    [c EXCEPT !.store = [@ EXCEPT !.isTransferring = FALSE,
                                  !.fileTransferProgress = 0,
                                  !.fileTransferMessage = ""],
              !.transfers[k].pc = "rejected",
              !.op = "rejected"]

InitCollab == [store |-> collabInitialState, transfers |-> <<>>, op |-> "new"]

(***************************************************************************)
(* DxfToGdsConverter (lib/converters/DxfToGdsConverter.ts):                *)
(* convertEntityToPolygon and the entity loop of convertDxfToGds.  A       *)
(* point is <<x, y>>; a polygon that is not built is <<>> in place of      *)
(* null.  Coordinates are integers; Math.cos and Math.sin are taken from a *)
(* table for the multiples of a 32nd of a turn, in thousandths.            *)
(***************************************************************************)
\* 1000 * cos(k * 2 * pi / 32) for k = 0..8, rounded.
CosTable == <<1000, 981, 924, 831, 707, 556, 383, 195, 0>>
Cos32(k) ==
    LET q == ((k % 32) + 32) % 32
    IN  IF q <= 8 THEN CosTable[q + 1]
        ELSE IF q <= 16 THEN -CosTable[16 - q + 1]
        ELSE IF q <= 24 THEN -CosTable[q - 16 + 1]
        ELSE CosTable[32 - q + 1]
Sin32(k) == Cos32(k - 8)

\* The vertices an entity can carry.
DxfPoints == {<<0, 0>>, <<10, 0>>, <<10, 10>>}
MaxVertices == 4
VertexLists == UNION {[1..n -> DxfPoints] : n \in 0..MaxVertices}

\* dxf.entities[i]: `vertices` for LINE and the polylines, `corners` for
\* SOLID and 3DFACE, center and radius for CIRCLE and ARC, whose angles are
\* in degrees.
DxfEntities ==
    {[type |-> t, vertices |-> v, radius |-> 0, endAngle |-> 0] :
        t \in {"LINE", "LWPOLYLINE", "POLYLINE", "SOLID", "3DFACE", "TEXT"},
        v \in VertexLists}
    \cup {[type |-> "CIRCLE", vertices |-> <<>>, radius |-> r, endAngle |-> 0] :
             r \in {0, 1000}}
    \cup {[type |-> "ARC", vertices |-> <<>>, radius |-> r, endAngle |-> a] :
             r \in {0, 1000}, a \in {0, 180, 360}}

\* The points the switch statement collects; the centre is (0, 0), an arc
\* starts at 0 degrees.
EntityPoints(entity) ==
    CASE entity.type = "LINE" ->
           IF Len(entity.vertices) >= 2
           THEN <<entity.vertices[1], entity.vertices[2]>> ELSE <<>>
      [] entity.type \in {"LWPOLYLINE", "POLYLINE", "SOLID", "3DFACE"} ->
           entity.vertices
      [] entity.type = "CIRCLE" ->
           [n \in 1..32 |-> <<(entity.radius * Cos32(n - 1)) \div 1000,
                              (entity.radius * Sin32(n - 1)) \div 1000>>]
      [] entity.type = "ARC" ->
           \* angle = (i / 16) * endAngle, in 32nds of a turn
           LET step == (entity.endAngle * 32) \div (360 * 16)
           IN  [n \in 1..17 |-> <<(entity.radius * Cos32((n - 1) * step)) \div 1000,
                                  (entity.radius * Sin32((n - 1) * step)) \div 1000>>]
      [] OTHER -> <<>>

\* convertEntityToPolygon: <<polygon>>, or <<>> for null.
convertEntityToPolygon(entity, layerNumber) ==
    LET points == EntityPoints(entity)
    IN  IF entity.type \notin {"LINE", "LWPOLYLINE", "POLYLINE", "CIRCLE", "ARC",
                               "SOLID", "3DFACE"}
        THEN <<>>
        ELSE IF Len(points) < 3 THEN <<>>
        ELSE
          LET closed == IF points[1] # points[Len(points)]
                        THEN Append(points, points[1]) ELSE points
          IN  <<[points |-> closed, layer |-> layerNumber, datatype |-> 0,
                 boundingBox |->
                    BB(SetMin({closed[i][1] : i \in DOMAIN closed}),
                       SetMin({closed[i][2] : i \in DOMAIN closed}),
                       SetMax({closed[i][1] : i \in DOMAIN closed}),
                       SetMax({closed[i][2] : i \in DOMAIN closed}))]>>

RECURSIVE convertEntities(_, _)
\* The loop over dxf.entities from the i-th on: the polygons of the top
\* cell; every entity lies on layer "0".
convertEntities(entities, i) ==
    IF i > Len(entities) THEN <<>>
    ELSE convertEntityToPolygon(entities[i], 0) \o convertEntities(entities, i + 1)

InitDxf == [entities |-> <<>>, polygons |-> <<>>, converted |-> FALSE]


InitStores ==
    /\ documents = Docs
    /\ editor = InitEditor
    /\ embed = InitEmbed
    /\ collab = InitCollab
    /\ dxf = InitDxf

uiVars == <<documents, measure, editor, embed, collab, dxf>>

vars == <<rendererVars, minimapVars, loaderVars, uiVars>>

\* The page after construction. Two renders interleave with one viewport
\* event here; SpecLod follows one render with MaxInputs events.
Init ==
    /\ InitStores
    /\ renderer = InitRenderer
    /\ now = 0
    /\ ticks = 0
    /\ inputs = MaxInputs - 1
    /\ renders = 0
    /\ lastOp = Op("init")
    /\ minimap = InitMinimap
    /\ minimapRenders = 0
    /\ gdsStore = InitStore
    /\ loadCalls = <<>>
    /\ loads = 0
    /\ lastLoad = NoLoad
    /\ measure = InitMeasure

(***************************************************************************)
(* Inputs.                                                                 *)
(***************************************************************************)
ZoomFactors == {<<9, 10>>, <<11, 10>>}
MousePositions == {<<50, 50>>}
PanDeltas == {<<200, 0>>}
ViewportStates ==
    {[x |-> R(0), y |-> R(100), scale |-> R(10)]}

\* The viewport numbers a step computes from fit the model's integers.
Representable(s) ==
    /\ \A q \in {s.x, s.y, s.scaleX, s.scaleY} :
          Abs(q[1]) <= MaxMagnitude /\ q[2] <= MaxMagnitude
    /\ s.lodMetrics.avgVisiblePolygons[2] <= MaxAverageDenominator

(***************************************************************************)
(* Actions.                                                                *)
(***************************************************************************)
Wheel ==
    /\ inputs < MaxInputs
    /\ Representable(renderer)
    /\ \E f \in ZoomFactors, m \in MousePositions :
          renderer' = wheel(renderer, f, m[1], m[2])
    /\ inputs' = inputs + 1
    /\ lastOp' = Op("wheel")
    /\ UNCHANGED <<now, ticks, renders>>
    /\ UNCHANGED <<minimapVars, loaderVars, uiVars>>

Pan ==
    /\ inputs < MaxInputs
    /\ Representable(renderer)
    /\ \E d \in PanDeltas : renderer' = pan(renderer, d[1], d[2])
    /\ inputs' = inputs + 1
    /\ lastOp' = Op("pan")
    /\ UNCHANGED <<now, ticks, renders>>
    /\ UNCHANGED <<minimapVars, loaderVars, uiVars>>

FitToView ==
    /\ inputs < MaxInputs
    /\ Representable(renderer)
    /\ renderer' = fitToView(renderer)
    /\ inputs' = inputs + 1
    /\ lastOp' = Op("fitToView")
    /\ UNCHANGED <<now, ticks, renders>>
    /\ UNCHANGED <<minimapVars, loaderVars, uiVars>>

SetViewportState ==
    /\ inputs < MaxInputs
    /\ Representable(renderer)
    /\ \E state \in ViewportStates : renderer' = setViewportState(renderer, state)
    /\ inputs' = inputs + 1
    /\ lastOp' = Op("setViewportState")
    /\ UNCHANGED <<now, ticks, renders>>
    /\ UNCHANGED <<minimapVars, loaderVars, uiVars>>

\* ViewerCanvas: `renderer.renderGDSDocument($gdsStore.document)`, not awaited.
StartRender ==
    /\ renders < MaxRenders
    /\ \E d \in ViewerDocs : renderer' = startRender(renderer, d, FALSE)
    /\ renders' = renders + 1
    /\ lastOp' = Op("startRender")
    /\ UNCHANGED <<now, ticks, inputs>>
    /\ UNCHANGED <<minimapVars, loaderVars, uiVars>>

RenderPrepare ==
    \E k \in DOMAIN renderer.calls :
        /\ renderer.calls[k].pc = "prepare"
        /\ renderer' = renderPrepare(renderer, k)
        /\ lastOp' = CallOp("renderPrepare", renderer.calls[k])
        /\ UNCHANGED <<now, ticks, inputs, renders>>
        /\ UNCHANGED <<minimapVars, loaderVars, uiVars>>

RenderTopCell ==
    \E k \in DOMAIN renderer.calls :
        /\ renderer.calls[k].pc = "cell"
        /\ renderer' = renderTopCell(renderer, k)
        /\ lastOp' = CallOp("renderTopCell", renderer'.calls[k])
        /\ UNCHANGED <<now, ticks, inputs, renders>>
        /\ UNCHANGED <<minimapVars, loaderVars, uiVars>>

RenderFinish ==
    \E k \in DOMAIN renderer.calls :
        /\ renderer.calls[k].pc = "fit"
        /\ Representable(renderer)
        /\ renderer' = renderFinish(renderer, k)
        /\ lastOp' = CallOp("renderFinish",
                             onProgress(renderer.calls[k], 100, "Render complete!"))
        /\ UNCHANGED <<now, ticks, inputs, renders>>
        /\ UNCHANGED <<minimapVars, loaderVars, uiVars>>

Tick ==
    /\ ticks < MaxTicks
    /\ \E d \in TickMs : now' = now + d
    /\ ticks' = ticks + 1
    /\ UNCHANGED <<renderer, inputs, renders, lastOp>>
    /\ UNCHANGED <<minimapVars, loaderVars, uiVars>>

\* The layer-visibility maps a minimap render is given.
LayerVisibilities ==
    {<<>>, (<<1, 0>> :> TRUE) @@ (<<2, 0>> :> FALSE), (<<1, 0>> :> FALSE)}

RenderMinimap ==
    /\ minimapRenders < MaxMinimapRenders
    /\ \E d \in ViewerDocs, layerVisibility \in LayerVisibilities :
          minimap' = minimapRender(minimap, d, layerVisibility)
    /\ minimapRenders' = minimapRenders + 1
    /\ UNCHANGED <<rendererVars, loaderVars, uiVars>>

\* MinimapRenderer.render for any document the store can hold.
RenderMinimapOfAnyDocument ==
    /\ minimapRenders < MaxMinimapRenders
    /\ \E d \in DocIds, layerVisibility \in LayerVisibilities :
          minimap' = minimapRender(minimap, d, layerVisibility)
    /\ minimapRenders' = minimapRenders + 1
    /\ UNCHANGED <<rendererVars, loaderVars, uiVars>>

\* One step of a load: the store calls it makes are logged from empty.
Fresh(store) == [store EXCEPT !.log = <<>>]

LoadFromBuffer ==
    /\ loads < MaxLoads
    /\ \E file \in Files :
          LET r == loadGDSIIFromBuffer(Fresh(gdsStore), file)
          IN  /\ gdsStore' = r.store
              /\ loadCalls' = loadCalls \o r.pending
              /\ lastLoad' = [op |-> "loadGDSIIFromBuffer", resumed |-> FALSE,
                              failed |-> r.pending = <<>>,
                              parsed |-> FALSE, before |-> gdsStore.document]
    /\ loads' = loads + 1
    /\ UNCHANGED <<rendererVars, minimapVars, uiVars>>

LoadFromBufferParsed ==
    /\ \E k \in DOMAIN loadCalls :
          /\ loadCalls[k].fn = "loadGDSIIFromBuffer"
          /\ LET file == loadCalls[k].file
                 r == loadGDSIIFromBufferParsed(Fresh(gdsStore), file)
             IN  /\ gdsStore' = r.store
                 /\ loadCalls' = RemoveAt(loadCalls, k)
                 /\ lastLoad' = [op |-> "loadGDSIIFromBuffer", resumed |-> TRUE,
                                 failed |-> file.result = "throw",
                                 parsed |-> file.result # "throw",
                                 before |-> gdsStore.document]
    /\ UNCHANGED <<loads, rendererVars, minimapVars, uiVars>>

HandleFile ==
    /\ loads < MaxLoads
    /\ \E file \in Files :
          LET r == handleFile(Fresh(gdsStore), file)
          IN  /\ gdsStore' = r.store
              /\ loadCalls' = loadCalls \o r.pending
              /\ lastLoad' = [op |-> "handleFile", resumed |-> FALSE,
                              failed |-> r.pending = <<>>,
                              parsed |-> FALSE, before |-> gdsStore.document]
    /\ loads' = loads + 1
    /\ UNCHANGED <<rendererVars, minimapVars, uiVars>>

HandleFileRead ==
    /\ \E k \in DOMAIN loadCalls :
          /\ loadCalls[k].fn = "handleFile"
          /\ loadCalls[k].pc = "read"
          /\ LET r == handleFileRead(Fresh(gdsStore), loadCalls[k].file)
             IN  /\ gdsStore' = r.store
                 /\ loadCalls' = [loadCalls EXCEPT ![k] = r.pending[1]]
                 /\ lastLoad' = [op |-> "handleFile", resumed |-> TRUE, failed |-> FALSE,
                                 parsed |-> FALSE, before |-> gdsStore.document]
    /\ UNCHANGED <<loads, rendererVars, minimapVars, uiVars>>

HandleFileParsed ==
    /\ \E k \in DOMAIN loadCalls :
          /\ loadCalls[k].fn = "handleFile"
          /\ loadCalls[k].pc = "parse"
          /\ LET file == loadCalls[k].file
                 r == handleFileParsed(Fresh(gdsStore), file)
             IN  /\ gdsStore' = r.store
                 /\ loadCalls' = RemoveAt(loadCalls, k)
                 /\ lastLoad' = [op |-> "handleFile", resumed |-> TRUE,
                                 failed |-> file.result = "throw",
                                 parsed |-> file.result # "throw",
                                 before |-> gdsStore.document]
    /\ UNCHANGED <<loads, rendererVars, minimapVars, uiVars>>

Next ==
    \/ Wheel
    \/ Pan
    \/ FitToView
    \/ SetViewportState
    \/ StartRender
    \/ RenderPrepare
    \/ RenderTopCell
    \/ RenderFinish
    \/ Tick

Spec == Init /\ [][Next]_vars

\* Renders and viewport changes of the main renderer, and minimap renders.
NextLayers ==
    \/ Wheel
    \/ Pan
    \/ FitToView
    \/ SetViewportState
    \/ StartRender
    \/ RenderPrepare
    \/ RenderTopCell
    \/ RenderFinish
    \/ RenderMinimap

SpecLayers == Init /\ [][NextLayers]_vars

\* The LOD controller over one document: the renderer is constructed at
\* some time after the page's start, the viewer renders one document, and
\* then come the user's viewport events and the clock.
InitLod ==
    /\ InitStores
    /\ renderer = InitRenderer
    /\ now \in {0} \cup TickMs
    /\ ticks = 0
    /\ inputs = 0
    /\ renders = MaxRenders - 1
    /\ lastOp = Op("init")
    /\ minimap = InitMinimap
    /\ minimapRenders = 0
    /\ gdsStore = InitStore
    /\ loadCalls = <<>>
    /\ loads = 0
    /\ lastLoad = NoLoad
    /\ measure = InitMeasure

NextLod ==
    \/ Wheel
    \/ Pan
    \/ FitToView
    \/ SetViewportState
    \/ StartRender
    \/ RenderPrepare
    \/ RenderTopCell
    \/ RenderFinish
    \/ Tick

SpecLod == InitLod /\ [][NextLod]_vars

\* The render depth over its whole range: a render of any of the documents
\* has been prepared, and the controller has since taken the depth to one
\* of InitDepths; then come the rest of the render, the user's viewport
\* events, the clock, and the re-renders the controller starts.
InitDepths == {0, 1, 2, 10}

InitDepth ==
    /\ InitStores
    /\ \E docId \in DocIds, depth \in InitDepths :
          renderer = [renderPrepare(startRender(InitRenderer, docId, FALSE), 1)
                        EXCEPT !.currentRenderDepth = depth]
    /\ now \in {0} \cup TickMs
    /\ ticks = 0
    /\ inputs = 0
    /\ renders = MaxRenders
    /\ lastOp = Op("init")
    /\ minimap = InitMinimap
    /\ minimapRenders = 0
    /\ gdsStore = InitStore
    /\ loadCalls = <<>>
    /\ loads = 0
    /\ lastLoad = NoLoad
    /\ measure = InitMeasure

NextDepth ==
    \/ Wheel
    \/ Pan
    \/ FitToView
    \/ SetViewportState
    \/ RenderPrepare
    \/ RenderTopCell
    \/ RenderFinish
    \/ Tick

SpecDepth == InitDepth /\ [][NextDepth]_vars

\* Both renderers over every document, the ones with a cycle of references
\* and with a reference to a missing cell among them: the rest of a prepared
\* render at one of InitDepths, and a render of the minimap.
NextRecursion ==
    \/ RenderTopCell
    \/ RenderFinish
    \/ RenderMinimapOfAnyDocument

SpecRecursion == InitDepth /\ [][NextRecursion]_vars

\* Zooming at the end of the scale bar's range: the viewport has been set
\* (setViewportState, before anything is rendered) to the largest scale
\* whose bar is labelled 1 nm; then as in SpecLod.
ZoomBoundStates ==
    {[x |-> R(0), y |-> R(100),
      scale |-> RDiv(RMul(R(Screen.width), DbToUserUnits), <<4, 1000>>)]}

InitZoom ==
    /\ InitStores
    /\ \E state \in ZoomBoundStates : renderer = setViewportState(InitRenderer, state)
    /\ now = 0
    /\ ticks = 0
    /\ inputs = 0
    /\ renders = MaxRenders - 1
    /\ lastOp = Op("setViewportState")
    /\ minimap = InitMinimap
    /\ minimapRenders = 0
    /\ gdsStore = InitStore
    /\ loadCalls = <<>>
    /\ loads = 0
    /\ lastLoad = NoLoad
    /\ measure = InitMeasure

NextZoom ==
    \/ Wheel
    \/ Pan
    \/ FitToView
    \/ SetViewportState
    \/ StartRender
    \/ RenderPrepare
    \/ RenderTopCell
    \/ RenderFinish
    \/ Tick

SpecZoom == InitZoom /\ [][NextZoom]_vars

\* File loads, started while earlier ones may still be suspended.
\* The variables the measurement store leaves alone.
viewerVars == <<rendererVars, minimapVars, loaderVars, documents, editor, embed, collab, dxf>>

\* The state after a call of a method of measurementStore; `op` names it.
Did(m, op) == [m EXCEPT !.op = op]

\* One more call of a method that replaces the list of measurements.
Called(m) == [m EXCEPT !.calls = @ + 1]

InitializeForFile ==
    /\ measure.calls < MaxStoreCalls
    /\ \E f \in FileIdentifiers :
          measure' = Did(Called(initializeForFile(measure, f)), "initializeForFile")
    /\ UNCHANGED viewerVars

LoadFromLocalStorage ==
    /\ measure.calls < MaxStoreCalls
    /\ \E f \in FileIdentifiers :
          measure' = Did(Called(loadFromLocalStorage(measure, f)), "loadFromLocalStorage")
    /\ UNCHANGED viewerVars

EnterMeasurementMode ==
    /\ measure' = Did(enterMeasurementMode(measure), "enterMeasurementMode")
    /\ UNCHANGED viewerVars

ExitMeasurementMode ==
    /\ measure' = Did(exitMeasurementMode(measure), "exitMeasurementMode")
    /\ UNCHANGED viewerVars

AddPoint ==
    /\ measure.uuid < MaxCreated
    /\ \E point \in MeasurementPoints :
          measure' = Did(addPoint(measure, point), "addPoint")
    /\ UNCHANGED viewerVars

SetActiveMeasurement ==
    /\ \E p1 \in MeasurementPoints, p2 \in MeasurementPoints :
          measure' = Did(setActiveMeasurement(measure, <<p1, p2>>), "setActiveMeasurement")
    /\ UNCHANGED viewerVars

CompleteActiveMeasurement ==
    /\ measure.uuid < MaxCreated
    /\ measure' = Did(completeActiveMeasurement(measure), "completeActiveMeasurement")
    /\ UNCHANGED viewerVars

ClearAllMeasurements ==
    /\ measure.calls < MaxStoreCalls
    /\ measure' = Did(Called(clearAllMeasurements(measure)), "clearAllMeasurements")
    /\ UNCHANGED viewerVars

MeasurementReset ==
    /\ measure.calls < MaxStoreCalls
    /\ measure' = Did(Called(measurementReset(measure)), "reset")
    /\ UNCHANGED viewerVars

HideToast ==
    /\ measure' = Did(hideToast(measure), "hideToast")
    /\ UNCHANGED viewerVars

\* The toast's timer fires TOAST_DURATION_MS after showToast.
ToastTimer ==
    /\ measure.toastTimeout
    /\ measure' = Did(toastTimer(measure), "toastTimer")
    /\ UNCHANGED viewerVars

\* Date.now() moves on.
DateNow ==
    /\ measure.clock < MaxClock
    /\ measure' = Did([measure EXCEPT !.clock = @ + 1], "clock")
    /\ UNCHANGED viewerVars

\* The page opens with the localStorage a past visit left: nothing, or a
\* full list of measurements for the first file.
InitMeasurements ==
    /\ InitStores
    /\ renderer = InitRenderer
    /\ now = 0
    /\ ticks = 0
    /\ inputs = 0
    /\ renders = 0
    /\ lastOp = Op("init")
    /\ minimap = InitMinimap
    /\ minimapRenders = 0
    /\ gdsStore = InitStore
    /\ loadCalls = <<>>
    /\ loads = 0
    /\ lastLoad = NoLoad
    /\ \E stored \in {NoItem, StoredFull} :
          measure = [InitMeasure EXCEPT !.localStorage["a.gds_10"] = stored]

NextMeasurements ==
    \/ InitializeForFile
    \/ LoadFromLocalStorage
    \/ EnterMeasurementMode
    \/ ExitMeasurementMode
    \/ AddPoint
    \/ SetActiveMeasurement
    \/ CompleteActiveMeasurement
    \/ ClearAllMeasurements
    \/ MeasurementReset
    \/ HideToast
    \/ ToastTimer
    \/ DateNow

SpecMeasurements == InitMeasurements /\ [][NextMeasurements]_vars

\* The variables the editor store leaves alone.
notEditorVars == <<rendererVars, minimapVars, loaderVars, documents, measure, embed, collab, dxf>>

EnterEditorMode ==
    /\ editor.switches < MaxSwitches
    /\ \E sessionId \in SessionIds \cup {Null} :
          editor' = [enterEditorMode(editor, sessionId) EXCEPT
                        !.switches = @ + 1, !.op = "enterEditorMode"]
    /\ UNCHANGED notEditorVars

ExitEditorMode ==
    /\ editor.switches < MaxSwitches
    /\ editor' = [exitEditorMode(editor) EXCEPT
                     !.switches = @ + 1, !.op = "exitEditorMode"]
    /\ UNCHANGED notEditorVars

SetCode ==
    /\ editor.sets < MaxSetCodes
    /\ \E code \in Codes :
          editor' = [setCode(editor, code) EXCEPT !.sets = @ + 1, !.op = "setCode"]
    /\ UNCHANGED notEditorVars

\* A timer fires once its delay has passed.
AutoSave ==
    /\ \E timer \in editor.timers :
          /\ timer.at <= editor.time
          /\ editor' = [autoSave(editor, timer) EXCEPT !.op = "autoSave"]
    /\ UNCHANGED notEditorVars

EditorReset ==
    /\ editor.switches < MaxSwitches
    /\ editor' = [editorReset(editor) EXCEPT
                     !.switches = @ + 1, !.resets = @ + 1, !.op = "reset"]
    /\ UNCHANGED notEditorVars

\* Time passes; a timer that is due fires before more time passes.
EditorTime ==
    /\ editor.steps < MaxEditorSteps
    /\ \A timer \in editor.timers : timer.at > editor.time
    /\ editor' = [editor EXCEPT !.time = @ + HalfDelay, !.steps = @ + 1, !.op = "time"]
    /\ UNCHANGED notEditorVars

NextEditor ==
    \/ EnterEditorMode
    \/ ExitEditorMode
    \/ SetCode
    \/ AutoSave
    \/ EditorReset
    \/ EditorTime

SpecEditor == Init /\ [][NextEditor]_vars

\* The variables the embed API leaves alone.
notEmbedVars == <<rendererVars, minimapVars, loaderVars, documents, measure, editor, collab, dxf>>

EmbedInit ==
    /\ embed.calls < MaxEmbedCalls
    /\ embed' = [embedInit(embed) EXCEPT !.calls = @ + 1, !.op = "init"]
    /\ UNCHANGED notEmbedVars

EmbedDestroy ==
    /\ embed.calls < MaxEmbedCalls
    /\ embed' = [embedDestroy(embed) EXCEPT !.calls = @ + 1, !.op = "destroy"]
    /\ UNCHANGED notEmbedVars

\* The parent posts a message to the iframe's window.
EmbedMessage ==
    /\ embed.messages < MaxMessages
    /\ \E data \in IncomingMessages :
          embed' = [dispatchEvent([embed EXCEPT !.posted = <<>>, !.loadUrl = <<>>],
                                  embed.listeners, data)
                       EXCEPT !.messages = @ + 1, !.data = data, !.op = "message"]
    /\ UNCHANGED notEmbedVars

NextEmbed ==
    \/ EmbedInit
    \/ EmbedDestroy
    \/ EmbedMessage

SpecEmbed == Init /\ [][NextEmbed]_vars

\* The variables the DXF converter leaves alone.
notDxfVars == <<rendererVars, minimapVars, loaderVars, documents, measure, editor, embed, collab>>

notCollabVars == <<rendererVars, minimapVars, loaderVars, documents, measure, editor, embed, dxf>>

UploadFile ==
    /\ Len(collab.transfers) < MaxTransfers
    /\ collab' = transferStart(collab, "uploadFile")
    /\ UNCHANGED notCollabVars

DownloadFile ==
    /\ Len(collab.transfers) < MaxTransfers
    /\ collab' = transferStart(collab, "downloadFile")
    /\ UNCHANGED notCollabVars

DownloadFileById ==
    /\ Len(collab.transfers) < MaxTransfers
    /\ collab' = transferStart(collab, "downloadFileById")
    /\ UNCHANGED notCollabVars

UploadFilePending ==
    /\ Len(collab.transfers) < MaxTransfers
    /\ collab' = transferStart(collab, "uploadFilePending")
    /\ UNCHANGED notCollabVars

TransferProgress ==
    /\ \E k \in DOMAIN collab.transfers, report \in ProgressReports :
          /\ collab.transfers[k].pc = "awaiting"
          /\ collab' = transferProgress(collab, k, report)
    /\ UNCHANGED notCollabVars

TransferResolved ==
    /\ \E k \in DOMAIN collab.transfers :
          /\ collab.transfers[k].pc = "awaiting"
          /\ collab' = transferResolved(collab, k)
    /\ UNCHANGED notCollabVars

TransferRejected ==
    /\ \E k \in DOMAIN collab.transfers :
          /\ collab.transfers[k].pc = "awaiting"
          /\ collab' = transferRejected(collab, k)
    /\ UNCHANGED notCollabVars

NextCollab ==
    \/ UploadFile
    \/ DownloadFile
    \/ DownloadFileById
    \/ UploadFilePending
    \/ TransferProgress
    \/ TransferResolved
    \/ TransferRejected

SpecCollab == Init /\ [][NextCollab]_vars

\* A DXF file with one entity is given to the converter.
InitConvert ==
    /\ renderer = InitRenderer
    /\ now = 0
    /\ ticks = 0
    /\ inputs = 0
    /\ renders = 0
    /\ lastOp = Op("init")
    /\ minimap = InitMinimap
    /\ minimapRenders = 0
    /\ gdsStore = InitStore
    /\ loadCalls = <<>>
    /\ loads = 0
    /\ lastLoad = NoLoad
    /\ documents = Docs
    /\ measure = InitMeasure
    /\ editor = InitEditor
    /\ embed = InitEmbed
    /\ collab = InitCollab
    /\ \E entity \in DxfEntities : dxf = [InitDxf EXCEPT !.entities = <<entity>>]

ConvertDxfToGds ==
    /\ ~dxf.converted
    /\ dxf' = [dxf EXCEPT !.polygons = convertEntities(dxf.entities, 1),
                          !.converted = TRUE]
    /\ UNCHANGED notDxfVars

NextConvert == ConvertDxfToGds

SpecConvert == InitConvert /\ [][NextConvert]_vars

\* The rectangles of a renderTestGeometry call: count is 0, 1 or 2.
TestRectangles ==
    {<<>>, <<<<0, 0, 10, 10>>>>, <<<<0, 0, 10, 10>>, <<-100, 50, 20, 10>>>>}

RenderTestGeometry ==
    /\ renders < MaxRenders
    /\ Representable(renderer)
    /\ \E rects \in TestRectangles : renderer' = renderTestGeometry(renderer, rects)
    /\ renders' = renders + 1
    /\ lastOp' = Op("renderTestGeometry")
    /\ UNCHANGED <<now, ticks, inputs>>
    /\ UNCHANGED <<minimapVars, loaderVars, uiVars>>

ClearScene ==
    /\ renders < MaxRenders
    /\ renderer' = clear(renderer)
    /\ renders' = renders + 1
    /\ lastOp' = Op("clear")
    /\ UNCHANGED <<now, ticks, inputs>>
    /\ UNCHANGED <<minimapVars, loaderVars, uiVars>>

\* The public operations that add and remove geometry, next to the
\* viewport's events.
NextGeometry ==
    \/ Wheel
    \/ Pan
    \/ FitToView
    \/ SetViewportState
    \/ StartRender
    \/ RenderPrepare
    \/ RenderTopCell
    \/ RenderFinish
    \/ RenderTestGeometry
    \/ ClearScene

SpecGeometry == Init /\ [][NextGeometry]_vars

\* The minimap over any document, next to the main viewport's events.
NextMinimap ==
    \/ Wheel
    \/ Pan
    \/ FitToView
    \/ SetViewportState
    \/ RenderMinimapOfAnyDocument

SpecMinimap == InitLod /\ [][NextMinimap]_vars

NextLoad ==
    \/ LoadFromBuffer
    \/ LoadFromBufferParsed
    \/ HandleFile
    \/ HandleFileRead
    \/ HandleFileParsed

SpecLoad == Init /\ [][NextLoad]_vars

(***************************************************************************)
(* Claims.                                                                 *)
(***************************************************************************)
ViewportOps == {"wheel", "pan", "fitToView", "setViewportState"}

\* A batch is shown exactly when its box intersects the viewport.
CulledToViewport(s) ==
    \A k \in DOMAIN s.allGraphicsItems :
        LET item == s.allGraphicsItems[k]
        IN  s.graphics[item.data].visible = Intersects(getViewportBounds(s), item)

\* C1: after every viewport change (wheel zoom, pan, fitToView,
\* setViewportState) each batch of allGraphicsItems is visible if and only
\* if its bounding box intersects the rectangle of getViewportBounds.
C1_VisibleIffInViewport ==
    lastOp.op \in ViewportOps => CulledToViewport(renderer)

\* The batches in the scene come from one document only.
OneDocumentInScene(s) ==
    \A g, h \in DOMAIN s.graphics : s.graphics[g].doc = s.graphics[h].doc

\* C1 where the scene holds the batches of a single document: the case the
\* claim fails in needs the batches of two overlapping renders.
C1_SingleDocument ==
    (lastOp.op \in ViewportOps /\ OneDocumentInScene(renderer)) => CulledToViewport(renderer)

\* The layer is marked not visible in the document's layer table.
HiddenInDocument(docId, layerKey) ==
    layerKey \in DOMAIN documents[docId].layers /\ ~documents[docId].layers[layerKey].visible

\* Some polygon of the cell lies on a layer the document marks not visible.
HasHiddenPolygon(docId, cellName) ==
    \E i \in DOMAIN documents[docId].cells[cellName].polygons :
        HiddenInDocument(docId, documents[docId].cells[cellName].polygons[i].layer)

\* C2: no polygon whose layer is marked not visible is placed in a batch:
\* the main renderer holds no Graphics and no spatial-index item of a hidden
\* layer, and the minimap has drawn no polygon whose layer visibility is false.
C2_NoBatchOfHiddenLayer ==
    /\ \A g \in DOMAIN renderer.graphics :
          ~HiddenInDocument(renderer.graphics[g].doc, renderer.graphics[g].layer)
    /\ \A item \in renderer.spatialIndex :
          ~HiddenInDocument(renderer.graphics[item.data].doc, item.id[2])
    /\ \A k \in DOMAIN renderer.allGraphicsItems :
          ~HiddenInDocument(renderer.graphics[renderer.allGraphicsItems[k].data].doc,
                            renderer.allGraphicsItems[k].id[2])
    /\ \A n \in DOMAIN minimap.drawn :
          ~(/\ minimap.drawn[n].layer \in DOMAIN minimap.layerVisibility
            /\ minimap.layerVisibility[minimap.drawn[n].layer] = FALSE)

\* A cell with a polygon on a hidden layer has been rendered by the main
\* renderer after a viewport change, and the minimap has drawn a document
\* that has polygons on a layer whose visibility it was given as false.
C2_Witness ==
    /\ lastOp.op \in ViewportOps
    /\ \E g \in DOMAIN renderer.graphics :
          HasHiddenPolygon(renderer.graphics[g].doc, renderer.graphics[g].cell)
    /\ minimap.drawn # <<>>
    /\ \E c \in DOMAIN documents[minimap.doc].cells :
          /\ ~documents[minimap.doc].cells[c].skipInMinimap
          /\ \E i \in DOMAIN documents[minimap.doc].cells[c].polygons :
                LET layerKey == documents[minimap.doc].cells[c].polygons[i].layer
                IN  /\ layerKey \in DOMAIN minimap.layerVisibility
                    /\ ~minimap.layerVisibility[layerKey]

\* The store calls made by the last step of a load.
Logged(method) == \E n \in DOMAIN gdsStore.log : gdsStore.log[n] = method

\* C5: a load that fails (unsupported extension, parser or converter
\* exception) leaves the loaded document as it was, reports through setError
\* and makes no setDocument call; setDocument is called only in a step in
\* which parsing or conversion has returned successfully.
C5_FailedLoadKeepsDocument ==
    /\ lastLoad.failed =>
          /\ gdsStore.document = lastLoad.before
          /\ Logged("setError")
          /\ ~Logged("setDocument")
    /\ Logged("setDocument") => lastLoad.parsed
    /\ gdsStore.document # lastLoad.before => lastLoad.parsed

\* The parser or converter has thrown while a document was loaded, after all
\* loads have returned; the document is still the one loaded before.
C5_Witness ==
    /\ lastLoad.failed
    /\ lastLoad.resumed
    /\ lastLoad.before # NoDoc
    /\ gdsStore.document = lastLoad.before
    /\ gdsStore.error
    /\ loads = MaxLoads
    /\ loadCalls = <<>>

\* C3: in one pass of renderGDSDocument the polygons placed into batches,
\* summed over all top cells and their instances, never exceed
\* maxPolygonsPerRender; the budget is shared by the whole pass.
C3_PassWithinBudget ==
    /\ \A k \in DOMAIN renderer.calls :
          renderer.calls[k].totalPolygons <= MAX_POLYGONS_PER_RENDER
    /\ lastOp.call.totalPolygons <= MAX_POLYGONS_PER_RENDER

\* The batches of one uninterrupted pass over the top cells from the i-th on.
RECURSIVE PassFrom(_, _, _, _)
PassFrom(docId, i, depth, budget) ==
    LET doc == documents[docId]
    IN  IF i > Len(doc.topCells) THEN <<>>
        ELSE IF doc.topCells[i] \notin DOMAIN doc.cells
        THEN PassFrom(docId, i + 1, depth, budget)
        ELSE LET r == renderCellGeometry(docId, doc.topCells[i], 0, 0, 0, FALSE, 1,
                                         depth, budget)
             IN  r.items \o (IF budget - r.rendered <= 0 THEN <<>>
                             ELSE PassFrom(docId, i + 1, depth, budget - r.rendered))

Batch(docId, item) ==
    [doc |-> docId, id |-> item.id, minX |-> item.minX, minY |-> item.minY,
     maxX |-> item.maxX, maxY |-> item.maxY]

\* The scene, allGraphicsItems and the index hold one complete pass over
\* docId at the given depth.
SceneIsPass(s, docId, depth) ==
    LET pass == PassFrom(docId, 1, depth, MAX_POLYGONS_PER_RENDER)
        want == [k \in DOMAIN pass |-> Batch(docId, pass[k])]
    IN  /\ Len(s.graphics) = Len(pass)
        /\ [k \in DOMAIN s.allGraphicsItems |->
              Batch(s.graphics[s.allGraphicsItems[k].data].doc, s.allGraphicsItems[k])] = want
        /\ {Batch(s.graphics[item.data].doc, item) : item \in s.spatialIndex}
              = {want[k] : k \in DOMAIN want}

\* C4: a renderGDSDocument call started while an earlier one is suspended
\* cancels the earlier one: once no call is pending, the scene,
\* allGraphicsItems and the index hold exactly one complete render of the
\* document of the call started last.
C4_LastStartedRenderWins ==
    (renderer.calls = <<>> /\ renderer.started # NoDoc)
        => SceneIsPass(renderer, renderer.started, 0)

\* A step in which performViewportUpdate commits a depth change.
Commits == renderer'.lodMetrics.depthChangeCount # renderer.lodMetrics.depthChangeCount

\* C6: the LOD controller commits a depth change only in a viewport update
\* where at least 1000 ms have elapsed since the previous commit and the
\* zoom is below 0.2 times or above 2.0 times the zoom recorded at the
\* previous commit; a viewport update that does not commit leaves the depth
\* unchanged; so two commits are never less than 1000 ms apart.
C6_CommitNeedsCooldownAndZoom ==
    [][/\ Commits =>
            /\ now - renderer.lodMetrics.lastDepthChange >= 1000
            /\ \/ RLt(RAbs(renderer'.scaleX),
                      RMul(<<1, 5>>, renderer.lodMetrics.lastZoomLevel))
               \/ RLt(RMul(R(2), renderer.lodMetrics.lastZoomLevel),
                      RAbs(renderer'.scaleX))
            /\ renderer'.lodMetrics.lastDepthChange = now
            /\ renderer'.lodMetrics.depthChangeCount
                  = renderer.lodMetrics.depthChangeCount + 1
       /\ (inputs' # inputs /\ ~Commits) =>
            renderer'.currentRenderDepth = renderer.currentRenderDepth]_vars

\* Two commits have been made, the second one by a viewport event of the user.
C6_Witness ==
    /\ renderer.lodMetrics.depthChangeCount = 2
    /\ renderer.lodMetrics.lastDepthChange = now
    /\ lastOp.op \in ViewportOps

\* C7: while the zoom is held constant no viewport update changes the
\* committed depth, from any reachable state on, the one right after the
\* first render and fit included.
C7_ConstantZoomKeepsDepth ==
    [][(inputs' # inputs /\ RAbs(renderer'.scaleX) = RAbs(renderer.scaleX)) =>
            renderer'.currentRenderDepth = renderer.currentRenderDepth]_vars

\* C8: when the re-render triggered by a commit to depth D' finishes, the
\* render depth is D' and the batches are those of the cells within D'
\* reference levels of a top cell.
C8_RerenderAtCommittedDepth ==
    (/\ lastOp.op = "renderFinish"
     /\ lastOp.call.lod
     /\ renderer.calls = <<>>
     /\ renderer.lodMetrics.depthChangeCount = lastOp.call.commit)
        => /\ renderer.currentRenderDepth = lastOp.call.depth
           /\ SceneIsPass(renderer, lastOp.call.doc, lastOp.call.depth)

Viewport(s) == <<s.x, s.y, s.scaleX, s.scaleY>>

\* C9: an LOD commit and the re-render it triggers leave the main
\* container's x, y and scale as they were: the step that commits changes
\* them only as the user's event did, and the end of the re-render does not
\* change them.
C9_RerenderKeepsViewport ==
    [][(\E k \in DOMAIN renderer.calls :
            /\ renderer.calls[k].lod
            /\ renderer.calls[k].pc = "fit"
            /\ renderer'.calls = RemoveAt(renderer.calls, k))
        => Viewport(renderer') = Viewport(renderer)]_vars

\* The index holds the complete batch set of the document at some depth.
IndexComplete(s, docId) ==
    \E depth \in LOD_MIN_DEPTH..LOD_MAX_DEPTH :
        {Batch(s.graphics[item.data].doc, item) : item \in s.spatialIndex}
            = {Batch(docId, PassFrom(docId, 1, depth, MAX_POLYGONS_PER_RENDER)[k]) :
                 k \in DOMAIN PassFrom(docId, 1, depth, MAX_POLYGONS_PER_RENDER)}

\* C10: between the start and the end of an LOD re-render, a viewport update
\* that queries the spatial index (allGraphicsItems is not empty) finds in
\* it the complete batch set of the old or of the new depth.
C10_QuerySeesCompleteBatchSet ==
    [][(/\ inputs' # inputs
        /\ Len(renderer.allGraphicsItems) > 0
        /\ \E k \in DOMAIN renderer.calls : renderer.calls[k].lod)
        => \A k \in DOMAIN renderer.calls :
              renderer.calls[k].lod => IndexComplete(renderer, renderer.calls[k].doc)]_vars

\* The candidate depth as the specification computes it: from the moving
\* average of the visible count over the budget.
CandidateFromAverage(depth, avg) ==
    LET ratio == RDiv(avg, R(MAX_POLYGONS_PER_RENDER))
    IN  IF RLt(ratio, <<30, 100>>) THEN Min(LOD_MAX_DEPTH, depth + 1)
        ELSE IF RLt(<<90, 100>>, ratio) THEN Max(LOD_MIN_DEPTH, depth - 1)
        ELSE depth

\* A wheel, pan or setViewportState step over a scene with batches: the
\* step runs one viewport update.
UpdateRan ==
    /\ inputs' # inputs
    /\ lastOp'.op \in {"wheel", "pan", "setViewportState"}
    /\ Len(renderer.allGraphicsItems) > 0

\* C11: in every viewport update the candidate depth is the one given by
\* the exponential moving average of the visible count divided by the
\* budget (D+1 below 0.30, D-1 above 0.90, otherwise D), so that a spike of
\* the instantaneous count that leaves the average on its side of the
\* thresholds gives the candidate D.
C11_CandidateFromAverage ==
    [][UpdateRan =>
          calculateOptimalDepth(renderer, renderer'.lodMetrics.lastVisibleCount)
              = CandidateFromAverage(renderer.currentRenderDepth,
                                     renderer'.lodMetrics.avgVisiblePolygons)]_vars

\* C12: before and after every step the render depth is an integer within
\* [0, 10]; a commit moves it by exactly one level, so a candidate that the
\* bound clamps back to the current depth commits nothing.
C12_DepthWithinRange ==
    [][/\ renderer.currentRenderDepth \in 0..10
       /\ renderer'.currentRenderDepth \in 0..10
       /\ Commits => \/ renderer'.currentRenderDepth = renderer.currentRenderDepth + 1
                      \/ renderer'.currentRenderDepth = renderer.currentRenderDepth - 1]_vars

\* A viewport update at depth 10 with nothing visible, the zoom past its
\* threshold and the cooldown over: the candidate 11 is clamped, no commit.
C12_Witness ==
    /\ lastOp.op \in ViewportOps
    /\ renderer.currentRenderDepth = 10
    /\ Len(renderer.allGraphicsItems) > 0
    /\ renderer.lodMetrics.lastVisibleCount = 0
    /\ hasZoomChangedSignificantly(renderer, RAbs(renderer.scaleX))
    /\ now - renderer.lodMetrics.lastDepthChange >= LOD_CHANGE_COOLDOWN
    /\ renderer.lodMetrics.depthChangeCount = 0

\* The cells reached from a cell through at most `depth` cell references.
RECURSIVE Within(_, _, _)
Within(docId, cellName, depth) ==
    LET cells == documents[docId].cells
        refs == {cells[cellName].instances[n].cellRef : n \in DOMAIN cells[cellName].instances}
    IN  {cellName} \cup
        (IF depth <= 0 THEN {}
         ELSE UNION {Within(docId, ref, depth - 1) : ref \in refs \cap DOMAIN cells})

RECURSIVE SumPolygons(_, _, _)
SumPolygons(graphics, from, to) ==
    IF from > to THEN 0 ELSE graphics[from].polygons + SumPolygons(graphics, from + 1, to)

\* The first of the batches that come from the same cell instance as the n-th.
InstanceStart(graphics, n) ==
    LET same(m) == \A q \in m..n :
                      /\ graphics[q].cell = graphics[n].cell
                      /\ graphics[q].x = graphics[n].x
                      /\ graphics[q].y = graphics[n].y
    IN  SetMin({m \in 1..n : same(m)})

\* The step renders one top cell for the k-th pending call.
RendersTopCell(k) ==
    /\ lastOp'.op = "renderTopCell"
    /\ k \in DOMAIN renderer.calls
    /\ renderer.calls[k].pc = "cell"
    /\ Len(renderer'.calls) = Len(renderer.calls)
    /\ renderer'.calls[k] = lastOp'.call

\* C13: rendering a top cell at render depth D emits batches only for cells
\* within D references of the top cell (at D = 0 for the top cell alone),
\* and enters no cell once the polygons emitted have used up the budget.
C13_DepthAndBudgetStopRecursion ==
    [][\A k \in DOMAIN renderer.calls : RendersTopCell(k) =>
          LET c == renderer.calls[k]
              top == documents[c.doc].topCells[c.i + 1]
              first == Len(renderer.graphics) + 1
              graphics == renderer'.graphics
          IN  \A n \in first..Len(graphics) :
                 /\ graphics[n].cell \in Within(c.doc, top, renderer.currentRenderDepth)
                 /\ renderer.currentRenderDepth = 0 => graphics[n].cell = top
                 /\ SumPolygons(graphics, first, InstanceStart(graphics, n) - 1)
                       < c.polygonBudget]_vars

\* DocC's first top cell rendered at depth 1: CELL_A is drawn without its
\* CELL_D (two levels down) while budget is left; CELL_B uses up the budget
\* and the third reference is not entered.
C13_Witness ==
    /\ lastOp.op = "renderTopCell"
    /\ lastOp.call.doc = "c"
    /\ lastOp.call.polygonBudget <= 0
    /\ renderer.currentRenderDepth = 1
    /\ [n \in DOMAIN renderer.graphics |-> renderer.graphics[n].cell]
          = <<"CELL_A", "CELL_B">>

\* The reference carries an array.
IsArray(instance) == "arrayRows" \in DOMAIN instance

\* The polygons of the batches from..to that were drawn for the given cell.
RECURSIVE PolygonsOfCell(_, _, _, _)
PolygonsOfCell(graphics, from, to, cellName) ==
    IF from > to THEN 0
    ELSE (IF graphics[from].cell = cellName THEN graphics[from].polygons ELSE 0)
           + PolygonsOfCell(graphics, from + 1, to, cellName)

\* C14: when a top cell is rendered at depth >= 1 and its first reference
\* carries an array of rows x cols copies that the budget has room for, the
\* batches emitted hold rows x cols copies of the referenced cell's polygons.
C14_ArrayExpandsToCopies ==
    [][\A k \in DOMAIN renderer.calls : RendersTopCell(k) =>
          LET c == renderer.calls[k]
              doc == documents[c.doc]
              top == doc.cells[doc.topCells[c.i + 1]]
              instance == top.instances[1]
              copies == instance.arrayRows * instance.arrayCols
                          * Len(DrawnPolygons(doc, doc.cells[instance.cellRef]))
          IN  (/\ renderer.currentRenderDepth >= 1
               /\ Len(top.instances) > 0
               /\ IsArray(instance)
               /\ instance.cellRef \in DOMAIN doc.cells
               /\ Len(DrawnPolygons(doc, top)) + copies <= c.polygonBudget)
              => PolygonsOfCell(renderer'.graphics, Len(renderer.graphics) + 1,
                                Len(renderer'.graphics), instance.cellRef) >= copies]_vars

\* The bounding box of a batch as it is drawn: of the corners of its
\* polygons' box under the transform of its cell container.
DrawnBox(g) ==
    LET pts == Corners(g)
    IN  [minX |-> SetMin({q[1] : q \in pts}), minY |-> SetMin({q[2] : q \in pts}),
         maxX |-> SetMax({q[1] : q \in pts}), maxY |-> SetMax({q[2] : q \in pts})]

\* C15: the spatial-index item of every batch has as its box the bounding
\* box, in world coordinates, of the batch's polygons under the transform
\* (translation, rotation, reflection, magnification) the batch is drawn with.
C15_IndexBoxIsDrawnBox ==
    \A k \in DOMAIN renderer.allGraphicsItems :
        LET item == renderer.allGraphicsItems[k]
        IN  [minX |-> item.minX, minY |-> item.minY, maxX |-> item.maxX, maxY |-> item.maxY]
              = DrawnBox(renderer.graphics[item.data])

\* The values a call has passed to the progress callback so far.
ProgressValues(c) == [n \in DOMAIN c.progress |-> c.progress[n].progress]

\* They start at 0, lie within 0..100 and never decrease.
MonotonicProgress(values) ==
    /\ values # <<>> => values[1] = 0
    /\ \A n \in DOMAIN values : values[n] \in 0..100
    /\ \A n \in DOMAIN values : n > 1 => values[n - 1] <= values[n]

\* C16: during every renderGDSDocument call the values passed to the
\* progress callback start at 0, lie within 0..100 and never decrease, and
\* the last value of a call that has finished is 100.
C16_ProgressMonotonicTo100 ==
    /\ \A k \in DOMAIN renderer.calls :
          /\ renderer.calls[k].progress # <<>>
          /\ MonotonicProgress(ProgressValues(renderer.calls[k]))
    /\ MonotonicProgress(ProgressValues(lastOp.call))
    /\ lastOp.op = "renderFinish" =>
          ProgressValues(lastOp.call)[Len(lastOp.call.progress)] = 100

\* A render of DocC has finished whose budget ran out in the first of the
\* two top cells: it reported 0, 0, 90 and 100.
C16_Witness ==
    /\ lastOp.op = "renderFinish"
    /\ lastOp.call.doc = "c"
    /\ lastOp.call.polygonBudget <= 0
    /\ ProgressValues(lastOp.call) = <<0, 0, 90, 100>>

\* The messages every render reports, whether or not the budget runs out.
RoutineMessages ==
    {"Preparing to render...", "Rendering cell...", "Fitting to view...", "Render complete!"}

\* The call has left its top-cell loop with the budget used up.
BudgetExhausted(c) == c.pc = "fit" /\ c.totalPolygons > 0 /\ c.polygonBudget <= 0

\* The call has passed the progress callback a message other than the
\* routine ones.
ExhaustionReported(c) ==
    \E n \in DOMAIN c.progress : c.progress[n].message \notin RoutineMessages

\* C17: a render whose polygon budget is exhausted goes on to its end and
\* tells its caller of the exhaustion through a message on the progress
\* callback.
C17_ExhaustionSurfaced ==
    /\ \A k \in DOMAIN renderer.calls :
          BudgetExhausted(renderer.calls[k]) => ExhaustionReported(renderer.calls[k])
    /\ BudgetExhausted(lastOp.call) => ExhaustionReported(lastOp.call)

\* C18: wheel zoom keeps the viewport scale within the range whose scale
\* bar is labelled from 1 nm to 1 m: after a wheel event the bar has such
\* a label, also when the event arrives with the scale at the end of the
\* range.
C18_WheelKeepsScaleInRange ==
    lastOp.op = "wheel" => ScaleBarLabelled(renderer)

C20_FitTwiceIsFitOnce ==
    [][(/\ lastOp.op = "fitToView"
        /\ lastOp'.op = "fitToView"
        /\ inputs' # inputs
        /\ Len(renderer.allGraphicsItems) > 0
        /\ renderer'.allGraphicsItems = renderer.allGraphicsItems)
       => Viewport(renderer') = Viewport(renderer)]_vars

(***************************************************************************)
(* The minimap.                                                            *)
(***************************************************************************)
RECURSIVE RefersTo(_, _, _, _)
\* Cell `from` reaches cell `to` through at least one and at most n references.
RefersTo(docId, from, to, n) ==
    /\ n > 0
    /\ \E i \in DOMAIN documents[docId].cells[from].instances :
          LET ref == documents[docId].cells[from].instances[i].cellRef
          IN  /\ ref \in DOMAIN documents[docId].cells
              /\ (ref = to \/ RefersTo(docId, ref, to, n - 1))

\* The references of the document form no cycle.
IsHierarchy(docId) ==
    \A c \in DOMAIN documents[docId].cells :
        ~RefersTo(docId, c, c, Cardinality(DOMAIN documents[docId].cells))

RECURSIVE MinimapPolygons(_, _, _)
RECURSIVE MinimapPolygonsOfInstances(_, _, _, _)
\* The number of polygons on visible layers in one instance of the cell
\* and in all instances below it, cells flagged skipInMinimap left out.
MinimapPolygons(docId, cellName, layerVisibility) ==
    LET cell == documents[docId].cells[cellName]
    IN  IF cell.skipInMinimap THEN 0
        ELSE Cardinality({i \in DOMAIN cell.polygons :
                            MinimapLayerVisible(layerVisibility, cell.polygons[i].layer)})
             + MinimapPolygonsOfInstances(docId, cell.instances, 1, layerVisibility)

MinimapPolygonsOfInstances(docId, instances, k, layerVisibility) ==
    IF k > Len(instances) THEN 0
    ELSE (IF instances[k].cellRef \in DOMAIN documents[docId].cells
          THEN MinimapPolygons(docId, instances[k].cellRef, layerVisibility)
          ELSE 0)
         + MinimapPolygonsOfInstances(docId, instances, k + 1, layerVisibility)

RECURSIVE MinimapPolygonsOfTopCells(_, _, _)
MinimapPolygonsOfTopCells(docId, k, layerVisibility) ==
    IF k > Len(documents[docId].topCells) THEN 0
    ELSE (IF documents[docId].topCells[k] \in DOMAIN documents[docId].cells
          THEN MinimapPolygons(docId, documents[docId].topCells[k], layerVisibility)
          ELSE 0)
         + MinimapPolygonsOfTopCells(docId, k + 1, layerVisibility)

\* C21: a minimap render of a document draws every polygon on a visible
\* layer of every cell instance reachable from the top cells through cells
\* not flagged skipInMinimap, however deep the references go.
C21_MinimapDrawsWholeHierarchy ==
    (minimap.doc # NoDoc /\ IsHierarchy(minimap.doc))
       => Len(minimap.drawn)
            = MinimapPolygonsOfTopCells(minimap.doc, 1, minimap.layerVisibility)

(***************************************************************************)
(* The measurement store.                                                  *)
(***************************************************************************)
\* The step completed a measurement: a measurement was created.
Completed == measure'.uuid # measure.uuid

\* The entries of the list with the least createdAt.
Earliest(measurements) ==
    {i \in DOMAIN measurements :
        \A j \in DOMAIN measurements :
            measurements[j].createdAt >= measurements[i].createdAt}

\* C22: the store never holds more than MAX_MEASUREMENTS measurements, and
\* a measurement completed while MAX_MEASUREMENTS are stored replaces one
\* with the earliest createdAt: the others stay, in their order, followed
\* by the new one.
C22_AtMostMaxMeasurements ==
    [][/\ Len(measure.store.measurements) <= MAX_MEASUREMENTS
       /\ Len(measure'.store.measurements) <= MAX_MEASUREMENTS
       /\ (Completed /\ Len(measure.store.measurements) = MAX_MEASUREMENTS)
            => \E i \in Earliest(measure.store.measurements) :
                  LET old == measure.store.measurements
                      new == measure'.store.measurements
                  IN  /\ Len(new) = MAX_MEASUREMENTS
                      /\ new[Len(new)].id = measure'.uuid
                      /\ \A n \in 1..(Len(old) - 1) :
                            new[n] = IF n < i THEN old[n] ELSE old[n + 1]]_vars

\* A measurement has been completed while the store was full.
C22_Witness ==
    /\ measure.uuid > MAX_MEASUREMENTS
    /\ Len(measure.store.measurements) = MAX_MEASUREMENTS
    /\ measure.op \in {"addPoint", "completeActiveMeasurement"}
    /\ \E n \in DOMAIN measure.store.measurements :
          measure.store.measurements[n].id = measure.uuid

\* C23: when completing a measurement deletes the oldest one, the store's
\* toastMessage holds the warning after the call, and it stays set until
\* the toast's timer clears it.
C23_LimitToastShown ==
    [][/\ (Completed /\ Len(measure.store.measurements) >= MAX_MEASUREMENTS)
            => measure'.store.toastMessage = LimitToast
       /\ (measure.store.toastMessage = LimitToast /\ measure'.op # "toastTimer")
            => measure'.store.toastMessage = LimitToast]_vars

(***************************************************************************)
(* The editor store.                                                       *)
(***************************************************************************)
\* The localStorage writes made since the last setCode call.
WritesSinceSet(e) == Len(e.writes) - e.lastSet.writes

Persisted(e, key) == IF e.localStorage[key] = Null THEN "" ELSE e.localStorage[key]

\* C29: with setCode, enterEditorMode, exitEditorMode and the timer's
\* firings in any order, once no auto-save timer is pending the store's code
\* is the code localStorage holds under the key of the store's session.
C29_CodePersistedUnderSessionKey ==
    (editor.resets = 0 /\ editor.timers = {})
       => editor.store.code = Persisted(editor, storageKey(editor.store.sessionId))

(***************************************************************************)
(* The embed API.                                                          *)
(***************************************************************************)
\* C25: between init and destroy, however often init was called, a
\* gdsjam:getState message gets one gdsjam:state, a gdsjam:loadFile message
\* with a non-empty url one loadUrl call, one without a url one
\* gdsjam:error and no loadUrl call; after destroy no message is answered.
C25_OneAnswerPerMessage ==
    embed.op = "message" =>
       IF ~embed.opts
       THEN embed.posted = <<>> /\ embed.loadUrl = <<>>
       ELSE CASE embed.data.kind = "object" /\ embed.data.type = "gdsjam:getState" ->
                   embed.posted = <<"gdsjam:state">> /\ embed.loadUrl = <<>>
              [] embed.data.kind = "object" /\ embed.data.type = "gdsjam:loadFile" ->
                   IF embed.data.url = Null \/ embed.data.url = ""
                   THEN embed.posted = <<"gdsjam:error">> /\ embed.loadUrl = <<>>
                   ELSE embed.posted = <<>> /\ embed.loadUrl = <<embed.data.url>>
              [] OTHER -> embed.posted = <<>> /\ embed.loadUrl = <<>>

(***************************************************************************)
(* The DXF converter.                                                      *)
(***************************************************************************)
\* The points without an explicit closing duplicate of the first point.
WithoutClosingPoint(points) ==
    IF Len(points) >= 2 /\ points[1] = points[Len(points)]
    THEN SubSeq(points, 1, Len(points) - 1) ELSE points

DistinctPoints(points) ==
    Cardinality({WithoutClosingPoint(points)[i] : i \in DOMAIN WithoutClosingPoint(points)})

\* C26: no polygon of a built document has fewer than 3 distinct points,
\* counted without an explicit closing duplicate of the first point, and
\* a polyline with exactly 3 distinct points is kept.
C26_DegeneratePolygonsDropped ==
    dxf.converted =>
       /\ \A i \in DOMAIN dxf.polygons : DistinctPoints(dxf.polygons[i].points) >= 3
       /\ \A i \in DOMAIN dxf.entities :
             (/\ dxf.entities[i].type \in {"LWPOLYLINE", "POLYLINE", "SOLID", "3DFACE"}
              /\ DistinctPoints(dxf.entities[i].vertices) = 3)
                => Len(dxf.polygons) > 0

(***************************************************************************)
(* The spatial index and allGraphicsItems.                                 *)
(***************************************************************************)
\* C27: after renderGDSDocument, renderTestGeometry and clear the items of
\* the spatial index are the items of allGraphicsItems.
C27_IndexHoldsAllGraphicsItems ==
    lastOp.op \in {"renderFinish", "renderTestGeometry", "clear"}
       => renderer.spatialIndex
            = {renderer.allGraphicsItems[k] : k \in DOMAIN renderer.allGraphicsItems}

(***************************************************************************)
(* File transfers of the collaboration store.                              *)
(***************************************************************************)
InFlight ==
    {k \in DOMAIN collab.transfers : collab.transfers[k].pc = "awaiting"}

\* C28: isTransferring is true exactly while at least one file transfer is
\* in flight, and false once all transfers have settled.
C28_TransferringWhileInFlight ==
    collab.store.isTransferring <=> InFlight # {}

(***************************************************************************)
(* Termination of the recursion over cell references.                      *)
(***************************************************************************)
RECURSIVE Visits(_, _, _)
RECURSIVE VisitsVia(_, _, _, _)

\* The cells met on the reference paths that start at cellName and are at
\* most `depth` references long, one entry per path; references to cells
\* the document does not hold are left out.  `depth` falls with every
\* reference, so the list is finite for a document with cycles too.
Visits(docId, cellName, depth) ==
    <<cellName>> \o
    (IF depth <= 0 THEN <<>>
     ELSE VisitsVia(docId, documents[docId].cells[cellName].instances, 1, depth - 1))

VisitsVia(docId, instances, k, depth) ==
    IF k > Len(instances) THEN <<>>
    ELSE (IF instances[k].cellRef \in DOMAIN documents[docId].cells
          THEN Visits(docId, instances[k].cellRef, depth)
          ELSE <<>>) \o VisitsVia(docId, instances, k + 1, depth)

RECURSIVE PolygonsOfVisits(_, _, _)
PolygonsOfVisits(docId, visits, k) ==
    IF k > Len(visits) THEN 0
    ELSE Len(documents[docId].cells[visits[k]].polygons) + PolygonsOfVisits(docId, visits, k + 1)

RECURSIVE PolygonsWithinCap(_, _)
PolygonsWithinCap(docId, k) ==
    LET doc == documents[docId]
    IN  IF k > Len(doc.topCells) THEN 0
        ELSE (IF doc.topCells[k] \in DOMAIN doc.cells
              THEN PolygonsOfVisits(docId, Visits(docId, doc.topCells[k], MAX_DEPTH), 1)
              ELSE 0) + PolygonsWithinCap(docId, k + 1)

\* C30: rendering ends for every document, one with a cycle of references or
\* a reference to a missing cell included.  The main renderer enters, for a
\* top cell at render depth D, at most one cell per reference path of length
\* at most D; the minimap draws nothing deeper than MAX_DEPTH references and
\* at most the polygons on the reference paths of that length.
C30_RecursionBounded ==
    [][/\ \A k \in DOMAIN renderer.calls : RendersTopCell(k) =>
             LET c == renderer.calls[k]
                 top == documents[c.doc].topCells[c.i + 1]
                 first == Len(renderer.graphics) + 1
                 graphics == renderer'.graphics
                 entered == {InstanceStart(graphics, n) : n \in first..Len(graphics)}
             IN  Cardinality(entered)
                    <= Len(Visits(c.doc, top, renderer.currentRenderDepth))
       /\ minimap' # minimap =>
             /\ \A n \in DOMAIN minimap'.drawn : minimap'.drawn[n].depth <= MAX_DEPTH
             /\ Len(minimap'.drawn) <= PolygonsWithinCap(minimap'.doc, 1)]_vars

\* DocF, whose TOP refers to a missing cell and to LOOP, which refers back to
\* TOP: the main renderer at depth 1 has drawn TOP and LOOP and stopped, the
\* minimap has followed the cycle down to its depth cap.
C30_Witness ==
    /\ lastOp.op = "renderTopCell"
    /\ lastOp.call.doc = "f"
    /\ renderer.currentRenderDepth = 1
    /\ [n \in DOMAIN renderer.graphics |-> renderer.graphics[n].cell] = <<"TOP", "LOOP">>
    /\ minimap.doc = "f"
    /\ Len(minimap.drawn) = MAX_DEPTH + 1
    /\ minimap.drawn[Len(minimap.drawn)].depth = MAX_DEPTH

====
